---- MODULE Spec2Model ----
(***************************************************************************)
(* RecipeBookManager: the in-memory store of AppContext (books, recipes,   *)
(* tag registry, collections), the screen handlers that feed it, and the   *)
(* derived queries (search, collection membership, category suggestion).   *)
(*                                                                         *)
(* Strings are sequences of UTF-16 code units, so that trim, toLowerCase   *)
(* and includes are computed unit by unit.  An optional field is None      *)
(* (undefined) or Some(v).  Timestamps (Date.now(), createdAt) are natural *)
(* numbers in clock units.                                                 *)
(*                                                                         *)
(* React state: the variables books, recipes, tags and collections hold    *)
(* the useState hooks of AppProvider with every queued updater applied     *)
(* (updaters setX(prev => ...) are applied in call order to the latest     *)
(* state).  renderedBooks, renderedRecipes, renderedTags and               *)
(* renderedCollections are the values captured by the closures of the last *)
(* render: addRecipe, updateRecipe and addTag read `tags` there, the       *)
(* handlers of the screens read their book, recipe or collection there.    *)
(***************************************************************************)
EXTENDS Naturals, Integers, Sequences, FiniteSets

(* ------------------------------ bounds -------------------------------- *)

\* Number of handler calls explored from the seeded store (one more on the
\* book form alone, SpecBookForm).
MaxSteps == 2

\* First value of Date.now() in the explored runs (above every seeded id).
Epoch0 == 10

\* Number of clock ticks explored.
MaxTicks == 1

(* --------------------------- optional values -------------------------- *)

None == <<>>

Some(v) == <<v>>

\* JavaScript truthiness of an optional string: defined and not "".
Truthy(o) == o # None /\ o[1] # <<>>

(* ------------------------------ strings ------------------------------- *)

\* A string is the sequence of its UTF-16 code units.  A code unit of
\* Latin-1 is written as itself; another one is written by its code point,
\* "U+0152" for the ligature OE (and "U+0060" for the grave accent, which a
\* string constant cannot hold); a character outside the Basic Multilingual
\* Plane is its two surrogates, "U+D801" "U+DC00".
\*
\* The tables below are those of the Unicode character database, version 17.
\* UpperChars[i] is a code unit whose lower case is the single code unit
\* LowerChars[i].
UpperChars ==
  <<"A", "B", "C", "D", "E", "F", "G", "H", "I", "J", "K", "L", "M", "N", "O", "P", "Q", "R",
    "S", "T", "U", "V", "W", "X", "Y", "Z", "À", "Á", "Â", "Ã", "Ä", "Å", "Æ", "Ç", "È", "É",
    "Ê", "Ë", "Ì", "Í", "Î", "Ï", "Ð", "Ñ", "Ò", "Ó", "Ô", "Õ", "Ö", "Ø", "Ù", "Ú", "Û", "Ü",
    "Ý", "Þ", "U+0100", "U+0102", "U+0104", "U+0106", "U+0108", "U+010A", "U+010C", "U+010E",
    "U+0110", "U+0112", "U+0114", "U+0116", "U+0118", "U+011A", "U+011C", "U+011E", "U+0120",
    "U+0122", "U+0124", "U+0126", "U+0128", "U+012A", "U+012C", "U+012E", "U+0132", "U+0134",
    "U+0136", "U+0139", "U+013B", "U+013D", "U+013F", "U+0141", "U+0143", "U+0145", "U+0147",
    "U+014A", "U+014C", "U+014E", "U+0150", "U+0152", "U+0154", "U+0156", "U+0158", "U+015A",
    "U+015C", "U+015E", "U+0160", "U+0162", "U+0164", "U+0166", "U+0168", "U+016A", "U+016C",
    "U+016E", "U+0170", "U+0172", "U+0174", "U+0176", "U+0178", "U+0179", "U+017B", "U+017D",
    "U+0181", "U+0182", "U+0184", "U+0186", "U+0187", "U+0189", "U+018A", "U+018B", "U+018E",
    "U+018F", "U+0190", "U+0191", "U+0193", "U+0194", "U+0196", "U+0197", "U+0198", "U+019C",
    "U+019D", "U+019F", "U+01A0", "U+01A2", "U+01A4", "U+01A6", "U+01A7", "U+01A9", "U+01AC",
    "U+01AE", "U+01AF", "U+01B1", "U+01B2", "U+01B3", "U+01B5", "U+01B7", "U+01B8", "U+01BC",
    "U+01C4", "U+01C5", "U+01C7", "U+01C8", "U+01CA", "U+01CB", "U+01CD", "U+01CF", "U+01D1",
    "U+01D3", "U+01D5", "U+01D7", "U+01D9", "U+01DB", "U+01DE", "U+01E0", "U+01E2", "U+01E4",
    "U+01E6", "U+01E8", "U+01EA", "U+01EC", "U+01EE", "U+01F1", "U+01F2", "U+01F4", "U+01F6",
    "U+01F7", "U+01F8", "U+01FA", "U+01FC", "U+01FE", "U+0200", "U+0202", "U+0204", "U+0206",
    "U+0208", "U+020A", "U+020C", "U+020E", "U+0210", "U+0212", "U+0214", "U+0216", "U+0218",
    "U+021A", "U+021C", "U+021E", "U+0220", "U+0222", "U+0224", "U+0226", "U+0228", "U+022A",
    "U+022C", "U+022E", "U+0230", "U+0232", "U+023A", "U+023B", "U+023D", "U+023E", "U+0241",
    "U+0243", "U+0244", "U+0245", "U+0246", "U+0248", "U+024A", "U+024C", "U+024E", "U+0370",
    "U+0372", "U+0376", "U+037F", "U+0386", "U+0388", "U+0389", "U+038A", "U+038C", "U+038E",
    "U+038F", "U+0391", "U+0392", "U+0393", "U+0394", "U+0395", "U+0396", "U+0397", "U+0398",
    "U+0399", "U+039A", "U+039B", "U+039C", "U+039D", "U+039E", "U+039F", "U+03A0", "U+03A1",
    "U+03A3", "U+03A4", "U+03A5", "U+03A6", "U+03A7", "U+03A8", "U+03A9", "U+03AA", "U+03AB",
    "U+03CF", "U+03D8", "U+03DA", "U+03DC", "U+03DE", "U+03E0", "U+03E2", "U+03E4", "U+03E6",
    "U+03E8", "U+03EA", "U+03EC", "U+03EE", "U+03F4", "U+03F7", "U+03F9", "U+03FA", "U+03FD",
    "U+03FE", "U+03FF", "U+0400", "U+0401", "U+0402", "U+0403", "U+0404", "U+0405", "U+0406",
    "U+0407", "U+0408", "U+0409", "U+040A", "U+040B", "U+040C", "U+040D", "U+040E", "U+040F",
    "U+0410", "U+0411", "U+0412", "U+0413", "U+0414", "U+0415", "U+0416", "U+0417", "U+0418",
    "U+0419", "U+041A", "U+041B", "U+041C", "U+041D", "U+041E", "U+041F", "U+0420", "U+0421",
    "U+0422", "U+0423", "U+0424", "U+0425", "U+0426", "U+0427", "U+0428", "U+0429", "U+042A",
    "U+042B", "U+042C", "U+042D", "U+042E", "U+042F", "U+0460", "U+0462", "U+0464", "U+0466",
    "U+0468", "U+046A", "U+046C", "U+046E", "U+0470", "U+0472", "U+0474", "U+0476", "U+0478",
    "U+047A", "U+047C", "U+047E", "U+0480", "U+048A", "U+048C", "U+048E", "U+0490", "U+0492",
    "U+0494", "U+0496", "U+0498", "U+049A", "U+049C", "U+049E", "U+04A0", "U+04A2", "U+04A4",
    "U+04A6", "U+04A8", "U+04AA", "U+04AC", "U+04AE", "U+04B0", "U+04B2", "U+04B4", "U+04B6",
    "U+04B8", "U+04BA", "U+04BC", "U+04BE", "U+04C0", "U+04C1", "U+04C3", "U+04C5", "U+04C7",
    "U+04C9", "U+04CB", "U+04CD", "U+04D0", "U+04D2", "U+04D4", "U+04D6", "U+04D8", "U+04DA",
    "U+04DC", "U+04DE", "U+04E0", "U+04E2", "U+04E4", "U+04E6", "U+04E8", "U+04EA", "U+04EC",
    "U+04EE", "U+04F0", "U+04F2", "U+04F4", "U+04F6", "U+04F8", "U+04FA", "U+04FC", "U+04FE",
    "U+0500", "U+0502", "U+0504", "U+0506", "U+0508", "U+050A", "U+050C", "U+050E", "U+0510",
    "U+0512", "U+0514", "U+0516", "U+0518", "U+051A", "U+051C", "U+051E", "U+0520", "U+0522",
    "U+0524", "U+0526", "U+0528", "U+052A", "U+052C", "U+052E", "U+0531", "U+0532", "U+0533",
    "U+0534", "U+0535", "U+0536", "U+0537", "U+0538", "U+0539", "U+053A", "U+053B", "U+053C",
    "U+053D", "U+053E", "U+053F", "U+0540", "U+0541", "U+0542", "U+0543", "U+0544", "U+0545",
    "U+0546", "U+0547", "U+0548", "U+0549", "U+054A", "U+054B", "U+054C", "U+054D", "U+054E",
    "U+054F", "U+0550", "U+0551", "U+0552", "U+0553", "U+0554", "U+0555", "U+0556", "U+10A0",
    "U+10A1", "U+10A2", "U+10A3", "U+10A4", "U+10A5", "U+10A6", "U+10A7", "U+10A8", "U+10A9",
    "U+10AA", "U+10AB", "U+10AC", "U+10AD", "U+10AE", "U+10AF", "U+10B0", "U+10B1", "U+10B2",
    "U+10B3", "U+10B4", "U+10B5", "U+10B6", "U+10B7", "U+10B8", "U+10B9", "U+10BA", "U+10BB",
    "U+10BC", "U+10BD", "U+10BE", "U+10BF", "U+10C0", "U+10C1", "U+10C2", "U+10C3", "U+10C4",
    "U+10C5", "U+10C7", "U+10CD", "U+13A0", "U+13A1", "U+13A2", "U+13A3", "U+13A4", "U+13A5",
    "U+13A6", "U+13A7", "U+13A8", "U+13A9", "U+13AA", "U+13AB", "U+13AC", "U+13AD", "U+13AE",
    "U+13AF", "U+13B0", "U+13B1", "U+13B2", "U+13B3", "U+13B4", "U+13B5", "U+13B6", "U+13B7",
    "U+13B8", "U+13B9", "U+13BA", "U+13BB", "U+13BC", "U+13BD", "U+13BE", "U+13BF", "U+13C0",
    "U+13C1", "U+13C2", "U+13C3", "U+13C4", "U+13C5", "U+13C6", "U+13C7", "U+13C8", "U+13C9",
    "U+13CA", "U+13CB", "U+13CC", "U+13CD", "U+13CE", "U+13CF", "U+13D0", "U+13D1", "U+13D2",
    "U+13D3", "U+13D4", "U+13D5", "U+13D6", "U+13D7", "U+13D8", "U+13D9", "U+13DA", "U+13DB",
    "U+13DC", "U+13DD", "U+13DE", "U+13DF", "U+13E0", "U+13E1", "U+13E2", "U+13E3", "U+13E4",
    "U+13E5", "U+13E6", "U+13E7", "U+13E8", "U+13E9", "U+13EA", "U+13EB", "U+13EC", "U+13ED",
    "U+13EE", "U+13EF", "U+13F0", "U+13F1", "U+13F2", "U+13F3", "U+13F4", "U+13F5", "U+1C89",
    "U+1C90", "U+1C91", "U+1C92", "U+1C93", "U+1C94", "U+1C95", "U+1C96", "U+1C97", "U+1C98",
    "U+1C99", "U+1C9A", "U+1C9B", "U+1C9C", "U+1C9D", "U+1C9E", "U+1C9F", "U+1CA0", "U+1CA1",
    "U+1CA2", "U+1CA3", "U+1CA4", "U+1CA5", "U+1CA6", "U+1CA7", "U+1CA8", "U+1CA9", "U+1CAA",
    "U+1CAB", "U+1CAC", "U+1CAD", "U+1CAE", "U+1CAF", "U+1CB0", "U+1CB1", "U+1CB2", "U+1CB3",
    "U+1CB4", "U+1CB5", "U+1CB6", "U+1CB7", "U+1CB8", "U+1CB9", "U+1CBA", "U+1CBD", "U+1CBE",
    "U+1CBF", "U+1E00", "U+1E02", "U+1E04", "U+1E06", "U+1E08", "U+1E0A", "U+1E0C", "U+1E0E",
    "U+1E10", "U+1E12", "U+1E14", "U+1E16", "U+1E18", "U+1E1A", "U+1E1C", "U+1E1E", "U+1E20",
    "U+1E22", "U+1E24", "U+1E26", "U+1E28", "U+1E2A", "U+1E2C", "U+1E2E", "U+1E30", "U+1E32",
    "U+1E34", "U+1E36", "U+1E38", "U+1E3A", "U+1E3C", "U+1E3E", "U+1E40", "U+1E42", "U+1E44",
    "U+1E46", "U+1E48", "U+1E4A", "U+1E4C", "U+1E4E", "U+1E50", "U+1E52", "U+1E54", "U+1E56",
    "U+1E58", "U+1E5A", "U+1E5C", "U+1E5E", "U+1E60", "U+1E62", "U+1E64", "U+1E66", "U+1E68",
    "U+1E6A", "U+1E6C", "U+1E6E", "U+1E70", "U+1E72", "U+1E74", "U+1E76", "U+1E78", "U+1E7A",
    "U+1E7C", "U+1E7E", "U+1E80", "U+1E82", "U+1E84", "U+1E86", "U+1E88", "U+1E8A", "U+1E8C",
    "U+1E8E", "U+1E90", "U+1E92", "U+1E94", "U+1E9E", "U+1EA0", "U+1EA2", "U+1EA4", "U+1EA6",
    "U+1EA8", "U+1EAA", "U+1EAC", "U+1EAE", "U+1EB0", "U+1EB2", "U+1EB4", "U+1EB6", "U+1EB8",
    "U+1EBA", "U+1EBC", "U+1EBE", "U+1EC0", "U+1EC2", "U+1EC4", "U+1EC6", "U+1EC8", "U+1ECA",
    "U+1ECC", "U+1ECE", "U+1ED0", "U+1ED2", "U+1ED4", "U+1ED6", "U+1ED8", "U+1EDA", "U+1EDC",
    "U+1EDE", "U+1EE0", "U+1EE2", "U+1EE4", "U+1EE6", "U+1EE8", "U+1EEA", "U+1EEC", "U+1EEE",
    "U+1EF0", "U+1EF2", "U+1EF4", "U+1EF6", "U+1EF8", "U+1EFA", "U+1EFC", "U+1EFE", "U+1F08",
    "U+1F09", "U+1F0A", "U+1F0B", "U+1F0C", "U+1F0D", "U+1F0E", "U+1F0F", "U+1F18", "U+1F19",
    "U+1F1A", "U+1F1B", "U+1F1C", "U+1F1D", "U+1F28", "U+1F29", "U+1F2A", "U+1F2B", "U+1F2C",
    "U+1F2D", "U+1F2E", "U+1F2F", "U+1F38", "U+1F39", "U+1F3A", "U+1F3B", "U+1F3C", "U+1F3D",
    "U+1F3E", "U+1F3F", "U+1F48", "U+1F49", "U+1F4A", "U+1F4B", "U+1F4C", "U+1F4D", "U+1F59",
    "U+1F5B", "U+1F5D", "U+1F5F", "U+1F68", "U+1F69", "U+1F6A", "U+1F6B", "U+1F6C", "U+1F6D",
    "U+1F6E", "U+1F6F", "U+1F88", "U+1F89", "U+1F8A", "U+1F8B", "U+1F8C", "U+1F8D", "U+1F8E",
    "U+1F8F", "U+1F98", "U+1F99", "U+1F9A", "U+1F9B", "U+1F9C", "U+1F9D", "U+1F9E", "U+1F9F",
    "U+1FA8", "U+1FA9", "U+1FAA", "U+1FAB", "U+1FAC", "U+1FAD", "U+1FAE", "U+1FAF", "U+1FB8",
    "U+1FB9", "U+1FBA", "U+1FBB", "U+1FBC", "U+1FC8", "U+1FC9", "U+1FCA", "U+1FCB", "U+1FCC",
    "U+1FD8", "U+1FD9", "U+1FDA", "U+1FDB", "U+1FE8", "U+1FE9", "U+1FEA", "U+1FEB", "U+1FEC",
    "U+1FF8", "U+1FF9", "U+1FFA", "U+1FFB", "U+1FFC", "U+2126", "U+212A", "U+212B", "U+2132",
    "U+2160", "U+2161", "U+2162", "U+2163", "U+2164", "U+2165", "U+2166", "U+2167", "U+2168",
    "U+2169", "U+216A", "U+216B", "U+216C", "U+216D", "U+216E", "U+216F", "U+2183", "U+24B6",
    "U+24B7", "U+24B8", "U+24B9", "U+24BA", "U+24BB", "U+24BC", "U+24BD", "U+24BE", "U+24BF",
    "U+24C0", "U+24C1", "U+24C2", "U+24C3", "U+24C4", "U+24C5", "U+24C6", "U+24C7", "U+24C8",
    "U+24C9", "U+24CA", "U+24CB", "U+24CC", "U+24CD", "U+24CE", "U+24CF", "U+2C00", "U+2C01",
    "U+2C02", "U+2C03", "U+2C04", "U+2C05", "U+2C06", "U+2C07", "U+2C08", "U+2C09", "U+2C0A",
    "U+2C0B", "U+2C0C", "U+2C0D", "U+2C0E", "U+2C0F", "U+2C10", "U+2C11", "U+2C12", "U+2C13",
    "U+2C14", "U+2C15", "U+2C16", "U+2C17", "U+2C18", "U+2C19", "U+2C1A", "U+2C1B", "U+2C1C",
    "U+2C1D", "U+2C1E", "U+2C1F", "U+2C20", "U+2C21", "U+2C22", "U+2C23", "U+2C24", "U+2C25",
    "U+2C26", "U+2C27", "U+2C28", "U+2C29", "U+2C2A", "U+2C2B", "U+2C2C", "U+2C2D", "U+2C2E",
    "U+2C2F", "U+2C60", "U+2C62", "U+2C63", "U+2C64", "U+2C67", "U+2C69", "U+2C6B", "U+2C6D",
    "U+2C6E", "U+2C6F", "U+2C70", "U+2C72", "U+2C75", "U+2C7E", "U+2C7F", "U+2C80", "U+2C82",
    "U+2C84", "U+2C86", "U+2C88", "U+2C8A", "U+2C8C", "U+2C8E", "U+2C90", "U+2C92", "U+2C94",
    "U+2C96", "U+2C98", "U+2C9A", "U+2C9C", "U+2C9E", "U+2CA0", "U+2CA2", "U+2CA4", "U+2CA6",
    "U+2CA8", "U+2CAA", "U+2CAC", "U+2CAE", "U+2CB0", "U+2CB2", "U+2CB4", "U+2CB6", "U+2CB8",
    "U+2CBA", "U+2CBC", "U+2CBE", "U+2CC0", "U+2CC2", "U+2CC4", "U+2CC6", "U+2CC8", "U+2CCA",
    "U+2CCC", "U+2CCE", "U+2CD0", "U+2CD2", "U+2CD4", "U+2CD6", "U+2CD8", "U+2CDA", "U+2CDC",
    "U+2CDE", "U+2CE0", "U+2CE2", "U+2CEB", "U+2CED", "U+2CF2", "U+A640", "U+A642", "U+A644",
    "U+A646", "U+A648", "U+A64A", "U+A64C", "U+A64E", "U+A650", "U+A652", "U+A654", "U+A656",
    "U+A658", "U+A65A", "U+A65C", "U+A65E", "U+A660", "U+A662", "U+A664", "U+A666", "U+A668",
    "U+A66A", "U+A66C", "U+A680", "U+A682", "U+A684", "U+A686", "U+A688", "U+A68A", "U+A68C",
    "U+A68E", "U+A690", "U+A692", "U+A694", "U+A696", "U+A698", "U+A69A", "U+A722", "U+A724",
    "U+A726", "U+A728", "U+A72A", "U+A72C", "U+A72E", "U+A732", "U+A734", "U+A736", "U+A738",
    "U+A73A", "U+A73C", "U+A73E", "U+A740", "U+A742", "U+A744", "U+A746", "U+A748", "U+A74A",
    "U+A74C", "U+A74E", "U+A750", "U+A752", "U+A754", "U+A756", "U+A758", "U+A75A", "U+A75C",
    "U+A75E", "U+A760", "U+A762", "U+A764", "U+A766", "U+A768", "U+A76A", "U+A76C", "U+A76E",
    "U+A779", "U+A77B", "U+A77D", "U+A77E", "U+A780", "U+A782", "U+A784", "U+A786", "U+A78B",
    "U+A78D", "U+A790", "U+A792", "U+A796", "U+A798", "U+A79A", "U+A79C", "U+A79E", "U+A7A0",
    "U+A7A2", "U+A7A4", "U+A7A6", "U+A7A8", "U+A7AA", "U+A7AB", "U+A7AC", "U+A7AD", "U+A7AE",
    "U+A7B0", "U+A7B1", "U+A7B2", "U+A7B3", "U+A7B4", "U+A7B6", "U+A7B8", "U+A7BA", "U+A7BC",
    "U+A7BE", "U+A7C0", "U+A7C2", "U+A7C4", "U+A7C5", "U+A7C6", "U+A7C7", "U+A7C9", "U+A7CB",
    "U+A7CC", "U+A7CE", "U+A7D0", "U+A7D2", "U+A7D4", "U+A7D6", "U+A7D8", "U+A7DA", "U+A7DC",
    "U+A7F5", "U+FF21", "U+FF22", "U+FF23", "U+FF24", "U+FF25", "U+FF26", "U+FF27", "U+FF28",
    "U+FF29", "U+FF2A", "U+FF2B", "U+FF2C", "U+FF2D", "U+FF2E", "U+FF2F", "U+FF30", "U+FF31",
    "U+FF32", "U+FF33", "U+FF34", "U+FF35", "U+FF36", "U+FF37", "U+FF38", "U+FF39", "U+FF3A">>

LowerChars ==
  <<"a", "b", "c", "d", "e", "f", "g", "h", "i", "j", "k", "l", "m", "n", "o", "p", "q", "r",
    "s", "t", "u", "v", "w", "x", "y", "z", "à", "á", "â", "ã", "ä", "å", "æ", "ç", "è", "é",
    "ê", "ë", "ì", "í", "î", "ï", "ð", "ñ", "ò", "ó", "ô", "õ", "ö", "ø", "ù", "ú", "û", "ü",
    "ý", "þ", "U+0101", "U+0103", "U+0105", "U+0107", "U+0109", "U+010B", "U+010D", "U+010F",
    "U+0111", "U+0113", "U+0115", "U+0117", "U+0119", "U+011B", "U+011D", "U+011F", "U+0121",
    "U+0123", "U+0125", "U+0127", "U+0129", "U+012B", "U+012D", "U+012F", "U+0133", "U+0135",
    "U+0137", "U+013A", "U+013C", "U+013E", "U+0140", "U+0142", "U+0144", "U+0146", "U+0148",
    "U+014B", "U+014D", "U+014F", "U+0151", "U+0153", "U+0155", "U+0157", "U+0159", "U+015B",
    "U+015D", "U+015F", "U+0161", "U+0163", "U+0165", "U+0167", "U+0169", "U+016B", "U+016D",
    "U+016F", "U+0171", "U+0173", "U+0175", "U+0177", "ÿ", "U+017A", "U+017C", "U+017E",
    "U+0253", "U+0183", "U+0185", "U+0254", "U+0188", "U+0256", "U+0257", "U+018C", "U+01DD",
    "U+0259", "U+025B", "U+0192", "U+0260", "U+0263", "U+0269", "U+0268", "U+0199", "U+026F",
    "U+0272", "U+0275", "U+01A1", "U+01A3", "U+01A5", "U+0280", "U+01A8", "U+0283", "U+01AD",
    "U+0288", "U+01B0", "U+028A", "U+028B", "U+01B4", "U+01B6", "U+0292", "U+01B9", "U+01BD",
    "U+01C6", "U+01C6", "U+01C9", "U+01C9", "U+01CC", "U+01CC", "U+01CE", "U+01D0", "U+01D2",
    "U+01D4", "U+01D6", "U+01D8", "U+01DA", "U+01DC", "U+01DF", "U+01E1", "U+01E3", "U+01E5",
    "U+01E7", "U+01E9", "U+01EB", "U+01ED", "U+01EF", "U+01F3", "U+01F3", "U+01F5", "U+0195",
    "U+01BF", "U+01F9", "U+01FB", "U+01FD", "U+01FF", "U+0201", "U+0203", "U+0205", "U+0207",
    "U+0209", "U+020B", "U+020D", "U+020F", "U+0211", "U+0213", "U+0215", "U+0217", "U+0219",
    "U+021B", "U+021D", "U+021F", "U+019E", "U+0223", "U+0225", "U+0227", "U+0229", "U+022B",
    "U+022D", "U+022F", "U+0231", "U+0233", "U+2C65", "U+023C", "U+019A", "U+2C66", "U+0242",
    "U+0180", "U+0289", "U+028C", "U+0247", "U+0249", "U+024B", "U+024D", "U+024F", "U+0371",
    "U+0373", "U+0377", "U+03F3", "U+03AC", "U+03AD", "U+03AE", "U+03AF", "U+03CC", "U+03CD",
    "U+03CE", "U+03B1", "U+03B2", "U+03B3", "U+03B4", "U+03B5", "U+03B6", "U+03B7", "U+03B8",
    "U+03B9", "U+03BA", "U+03BB", "U+03BC", "U+03BD", "U+03BE", "U+03BF", "U+03C0", "U+03C1",
    "U+03C3", "U+03C4", "U+03C5", "U+03C6", "U+03C7", "U+03C8", "U+03C9", "U+03CA", "U+03CB",
    "U+03D7", "U+03D9", "U+03DB", "U+03DD", "U+03DF", "U+03E1", "U+03E3", "U+03E5", "U+03E7",
    "U+03E9", "U+03EB", "U+03ED", "U+03EF", "U+03B8", "U+03F8", "U+03F2", "U+03FB", "U+037B",
    "U+037C", "U+037D", "U+0450", "U+0451", "U+0452", "U+0453", "U+0454", "U+0455", "U+0456",
    "U+0457", "U+0458", "U+0459", "U+045A", "U+045B", "U+045C", "U+045D", "U+045E", "U+045F",
    "U+0430", "U+0431", "U+0432", "U+0433", "U+0434", "U+0435", "U+0436", "U+0437", "U+0438",
    "U+0439", "U+043A", "U+043B", "U+043C", "U+043D", "U+043E", "U+043F", "U+0440", "U+0441",
    "U+0442", "U+0443", "U+0444", "U+0445", "U+0446", "U+0447", "U+0448", "U+0449", "U+044A",
    "U+044B", "U+044C", "U+044D", "U+044E", "U+044F", "U+0461", "U+0463", "U+0465", "U+0467",
    "U+0469", "U+046B", "U+046D", "U+046F", "U+0471", "U+0473", "U+0475", "U+0477", "U+0479",
    "U+047B", "U+047D", "U+047F", "U+0481", "U+048B", "U+048D", "U+048F", "U+0491", "U+0493",
    "U+0495", "U+0497", "U+0499", "U+049B", "U+049D", "U+049F", "U+04A1", "U+04A3", "U+04A5",
    "U+04A7", "U+04A9", "U+04AB", "U+04AD", "U+04AF", "U+04B1", "U+04B3", "U+04B5", "U+04B7",
    "U+04B9", "U+04BB", "U+04BD", "U+04BF", "U+04CF", "U+04C2", "U+04C4", "U+04C6", "U+04C8",
    "U+04CA", "U+04CC", "U+04CE", "U+04D1", "U+04D3", "U+04D5", "U+04D7", "U+04D9", "U+04DB",
    "U+04DD", "U+04DF", "U+04E1", "U+04E3", "U+04E5", "U+04E7", "U+04E9", "U+04EB", "U+04ED",
    "U+04EF", "U+04F1", "U+04F3", "U+04F5", "U+04F7", "U+04F9", "U+04FB", "U+04FD", "U+04FF",
    "U+0501", "U+0503", "U+0505", "U+0507", "U+0509", "U+050B", "U+050D", "U+050F", "U+0511",
    "U+0513", "U+0515", "U+0517", "U+0519", "U+051B", "U+051D", "U+051F", "U+0521", "U+0523",
    "U+0525", "U+0527", "U+0529", "U+052B", "U+052D", "U+052F", "U+0561", "U+0562", "U+0563",
    "U+0564", "U+0565", "U+0566", "U+0567", "U+0568", "U+0569", "U+056A", "U+056B", "U+056C",
    "U+056D", "U+056E", "U+056F", "U+0570", "U+0571", "U+0572", "U+0573", "U+0574", "U+0575",
    "U+0576", "U+0577", "U+0578", "U+0579", "U+057A", "U+057B", "U+057C", "U+057D", "U+057E",
    "U+057F", "U+0580", "U+0581", "U+0582", "U+0583", "U+0584", "U+0585", "U+0586", "U+2D00",
    "U+2D01", "U+2D02", "U+2D03", "U+2D04", "U+2D05", "U+2D06", "U+2D07", "U+2D08", "U+2D09",
    "U+2D0A", "U+2D0B", "U+2D0C", "U+2D0D", "U+2D0E", "U+2D0F", "U+2D10", "U+2D11", "U+2D12",
    "U+2D13", "U+2D14", "U+2D15", "U+2D16", "U+2D17", "U+2D18", "U+2D19", "U+2D1A", "U+2D1B",
    "U+2D1C", "U+2D1D", "U+2D1E", "U+2D1F", "U+2D20", "U+2D21", "U+2D22", "U+2D23", "U+2D24",
    "U+2D25", "U+2D27", "U+2D2D", "U+AB70", "U+AB71", "U+AB72", "U+AB73", "U+AB74", "U+AB75",
    "U+AB76", "U+AB77", "U+AB78", "U+AB79", "U+AB7A", "U+AB7B", "U+AB7C", "U+AB7D", "U+AB7E",
    "U+AB7F", "U+AB80", "U+AB81", "U+AB82", "U+AB83", "U+AB84", "U+AB85", "U+AB86", "U+AB87",
    "U+AB88", "U+AB89", "U+AB8A", "U+AB8B", "U+AB8C", "U+AB8D", "U+AB8E", "U+AB8F", "U+AB90",
    "U+AB91", "U+AB92", "U+AB93", "U+AB94", "U+AB95", "U+AB96", "U+AB97", "U+AB98", "U+AB99",
    "U+AB9A", "U+AB9B", "U+AB9C", "U+AB9D", "U+AB9E", "U+AB9F", "U+ABA0", "U+ABA1", "U+ABA2",
    "U+ABA3", "U+ABA4", "U+ABA5", "U+ABA6", "U+ABA7", "U+ABA8", "U+ABA9", "U+ABAA", "U+ABAB",
    "U+ABAC", "U+ABAD", "U+ABAE", "U+ABAF", "U+ABB0", "U+ABB1", "U+ABB2", "U+ABB3", "U+ABB4",
    "U+ABB5", "U+ABB6", "U+ABB7", "U+ABB8", "U+ABB9", "U+ABBA", "U+ABBB", "U+ABBC", "U+ABBD",
    "U+ABBE", "U+ABBF", "U+13F8", "U+13F9", "U+13FA", "U+13FB", "U+13FC", "U+13FD", "U+1C8A",
    "U+10D0", "U+10D1", "U+10D2", "U+10D3", "U+10D4", "U+10D5", "U+10D6", "U+10D7", "U+10D8",
    "U+10D9", "U+10DA", "U+10DB", "U+10DC", "U+10DD", "U+10DE", "U+10DF", "U+10E0", "U+10E1",
    "U+10E2", "U+10E3", "U+10E4", "U+10E5", "U+10E6", "U+10E7", "U+10E8", "U+10E9", "U+10EA",
    "U+10EB", "U+10EC", "U+10ED", "U+10EE", "U+10EF", "U+10F0", "U+10F1", "U+10F2", "U+10F3",
    "U+10F4", "U+10F5", "U+10F6", "U+10F7", "U+10F8", "U+10F9", "U+10FA", "U+10FD", "U+10FE",
    "U+10FF", "U+1E01", "U+1E03", "U+1E05", "U+1E07", "U+1E09", "U+1E0B", "U+1E0D", "U+1E0F",
    "U+1E11", "U+1E13", "U+1E15", "U+1E17", "U+1E19", "U+1E1B", "U+1E1D", "U+1E1F", "U+1E21",
    "U+1E23", "U+1E25", "U+1E27", "U+1E29", "U+1E2B", "U+1E2D", "U+1E2F", "U+1E31", "U+1E33",
    "U+1E35", "U+1E37", "U+1E39", "U+1E3B", "U+1E3D", "U+1E3F", "U+1E41", "U+1E43", "U+1E45",
    "U+1E47", "U+1E49", "U+1E4B", "U+1E4D", "U+1E4F", "U+1E51", "U+1E53", "U+1E55", "U+1E57",
    "U+1E59", "U+1E5B", "U+1E5D", "U+1E5F", "U+1E61", "U+1E63", "U+1E65", "U+1E67", "U+1E69",
    "U+1E6B", "U+1E6D", "U+1E6F", "U+1E71", "U+1E73", "U+1E75", "U+1E77", "U+1E79", "U+1E7B",
    "U+1E7D", "U+1E7F", "U+1E81", "U+1E83", "U+1E85", "U+1E87", "U+1E89", "U+1E8B", "U+1E8D",
    "U+1E8F", "U+1E91", "U+1E93", "U+1E95", "ß", "U+1EA1", "U+1EA3", "U+1EA5", "U+1EA7",
    "U+1EA9", "U+1EAB", "U+1EAD", "U+1EAF", "U+1EB1", "U+1EB3", "U+1EB5", "U+1EB7", "U+1EB9",
    "U+1EBB", "U+1EBD", "U+1EBF", "U+1EC1", "U+1EC3", "U+1EC5", "U+1EC7", "U+1EC9", "U+1ECB",
    "U+1ECD", "U+1ECF", "U+1ED1", "U+1ED3", "U+1ED5", "U+1ED7", "U+1ED9", "U+1EDB", "U+1EDD",
    "U+1EDF", "U+1EE1", "U+1EE3", "U+1EE5", "U+1EE7", "U+1EE9", "U+1EEB", "U+1EED", "U+1EEF",
    "U+1EF1", "U+1EF3", "U+1EF5", "U+1EF7", "U+1EF9", "U+1EFB", "U+1EFD", "U+1EFF", "U+1F00",
    "U+1F01", "U+1F02", "U+1F03", "U+1F04", "U+1F05", "U+1F06", "U+1F07", "U+1F10", "U+1F11",
    "U+1F12", "U+1F13", "U+1F14", "U+1F15", "U+1F20", "U+1F21", "U+1F22", "U+1F23", "U+1F24",
    "U+1F25", "U+1F26", "U+1F27", "U+1F30", "U+1F31", "U+1F32", "U+1F33", "U+1F34", "U+1F35",
    "U+1F36", "U+1F37", "U+1F40", "U+1F41", "U+1F42", "U+1F43", "U+1F44", "U+1F45", "U+1F51",
    "U+1F53", "U+1F55", "U+1F57", "U+1F60", "U+1F61", "U+1F62", "U+1F63", "U+1F64", "U+1F65",
    "U+1F66", "U+1F67", "U+1F80", "U+1F81", "U+1F82", "U+1F83", "U+1F84", "U+1F85", "U+1F86",
    "U+1F87", "U+1F90", "U+1F91", "U+1F92", "U+1F93", "U+1F94", "U+1F95", "U+1F96", "U+1F97",
    "U+1FA0", "U+1FA1", "U+1FA2", "U+1FA3", "U+1FA4", "U+1FA5", "U+1FA6", "U+1FA7", "U+1FB0",
    "U+1FB1", "U+1F70", "U+1F71", "U+1FB3", "U+1F72", "U+1F73", "U+1F74", "U+1F75", "U+1FC3",
    "U+1FD0", "U+1FD1", "U+1F76", "U+1F77", "U+1FE0", "U+1FE1", "U+1F7A", "U+1F7B", "U+1FE5",
    "U+1F78", "U+1F79", "U+1F7C", "U+1F7D", "U+1FF3", "U+03C9", "k", "å", "U+214E", "U+2170",
    "U+2171", "U+2172", "U+2173", "U+2174", "U+2175", "U+2176", "U+2177", "U+2178", "U+2179",
    "U+217A", "U+217B", "U+217C", "U+217D", "U+217E", "U+217F", "U+2184", "U+24D0", "U+24D1",
    "U+24D2", "U+24D3", "U+24D4", "U+24D5", "U+24D6", "U+24D7", "U+24D8", "U+24D9", "U+24DA",
    "U+24DB", "U+24DC", "U+24DD", "U+24DE", "U+24DF", "U+24E0", "U+24E1", "U+24E2", "U+24E3",
    "U+24E4", "U+24E5", "U+24E6", "U+24E7", "U+24E8", "U+24E9", "U+2C30", "U+2C31", "U+2C32",
    "U+2C33", "U+2C34", "U+2C35", "U+2C36", "U+2C37", "U+2C38", "U+2C39", "U+2C3A", "U+2C3B",
    "U+2C3C", "U+2C3D", "U+2C3E", "U+2C3F", "U+2C40", "U+2C41", "U+2C42", "U+2C43", "U+2C44",
    "U+2C45", "U+2C46", "U+2C47", "U+2C48", "U+2C49", "U+2C4A", "U+2C4B", "U+2C4C", "U+2C4D",
    "U+2C4E", "U+2C4F", "U+2C50", "U+2C51", "U+2C52", "U+2C53", "U+2C54", "U+2C55", "U+2C56",
    "U+2C57", "U+2C58", "U+2C59", "U+2C5A", "U+2C5B", "U+2C5C", "U+2C5D", "U+2C5E", "U+2C5F",
    "U+2C61", "U+026B", "U+1D7D", "U+027D", "U+2C68", "U+2C6A", "U+2C6C", "U+0251", "U+0271",
    "U+0250", "U+0252", "U+2C73", "U+2C76", "U+023F", "U+0240", "U+2C81", "U+2C83", "U+2C85",
    "U+2C87", "U+2C89", "U+2C8B", "U+2C8D", "U+2C8F", "U+2C91", "U+2C93", "U+2C95", "U+2C97",
    "U+2C99", "U+2C9B", "U+2C9D", "U+2C9F", "U+2CA1", "U+2CA3", "U+2CA5", "U+2CA7", "U+2CA9",
    "U+2CAB", "U+2CAD", "U+2CAF", "U+2CB1", "U+2CB3", "U+2CB5", "U+2CB7", "U+2CB9", "U+2CBB",
    "U+2CBD", "U+2CBF", "U+2CC1", "U+2CC3", "U+2CC5", "U+2CC7", "U+2CC9", "U+2CCB", "U+2CCD",
    "U+2CCF", "U+2CD1", "U+2CD3", "U+2CD5", "U+2CD7", "U+2CD9", "U+2CDB", "U+2CDD", "U+2CDF",
    "U+2CE1", "U+2CE3", "U+2CEC", "U+2CEE", "U+2CF3", "U+A641", "U+A643", "U+A645", "U+A647",
    "U+A649", "U+A64B", "U+A64D", "U+A64F", "U+A651", "U+A653", "U+A655", "U+A657", "U+A659",
    "U+A65B", "U+A65D", "U+A65F", "U+A661", "U+A663", "U+A665", "U+A667", "U+A669", "U+A66B",
    "U+A66D", "U+A681", "U+A683", "U+A685", "U+A687", "U+A689", "U+A68B", "U+A68D", "U+A68F",
    "U+A691", "U+A693", "U+A695", "U+A697", "U+A699", "U+A69B", "U+A723", "U+A725", "U+A727",
    "U+A729", "U+A72B", "U+A72D", "U+A72F", "U+A733", "U+A735", "U+A737", "U+A739", "U+A73B",
    "U+A73D", "U+A73F", "U+A741", "U+A743", "U+A745", "U+A747", "U+A749", "U+A74B", "U+A74D",
    "U+A74F", "U+A751", "U+A753", "U+A755", "U+A757", "U+A759", "U+A75B", "U+A75D", "U+A75F",
    "U+A761", "U+A763", "U+A765", "U+A767", "U+A769", "U+A76B", "U+A76D", "U+A76F", "U+A77A",
    "U+A77C", "U+1D79", "U+A77F", "U+A781", "U+A783", "U+A785", "U+A787", "U+A78C", "U+0265",
    "U+A791", "U+A793", "U+A797", "U+A799", "U+A79B", "U+A79D", "U+A79F", "U+A7A1", "U+A7A3",
    "U+A7A5", "U+A7A7", "U+A7A9", "U+0266", "U+025C", "U+0261", "U+026C", "U+026A", "U+029E",
    "U+0287", "U+029D", "U+AB53", "U+A7B5", "U+A7B7", "U+A7B9", "U+A7BB", "U+A7BD", "U+A7BF",
    "U+A7C1", "U+A7C3", "U+A794", "U+0282", "U+1D8E", "U+A7C8", "U+A7CA", "U+0264", "U+A7CD",
    "U+A7CF", "U+A7D1", "U+A7D3", "U+A7D5", "U+A7D7", "U+A7D9", "U+A7DB", "U+019B", "U+A7F6",
    "U+FF41", "U+FF42", "U+FF43", "U+FF44", "U+FF45", "U+FF46", "U+FF47", "U+FF48", "U+FF49",
    "U+FF4A", "U+FF4B", "U+FF4C", "U+FF4D", "U+FF4E", "U+FF4F", "U+FF50", "U+FF51", "U+FF52",
    "U+FF53", "U+FF54", "U+FF55", "U+FF56", "U+FF57", "U+FF58", "U+FF59", "U+FF5A">>

\* UpperPairs[i] is a surrogate pair whose lower case is the pair LowerPairs[i].
UpperPairs ==
  <<<<"U+D801", "U+DC00">>, <<"U+D801", "U+DC01">>, <<"U+D801", "U+DC02">>,
    <<"U+D801", "U+DC03">>, <<"U+D801", "U+DC04">>, <<"U+D801", "U+DC05">>,
    <<"U+D801", "U+DC06">>, <<"U+D801", "U+DC07">>, <<"U+D801", "U+DC08">>,
    <<"U+D801", "U+DC09">>, <<"U+D801", "U+DC0A">>, <<"U+D801", "U+DC0B">>,
    <<"U+D801", "U+DC0C">>, <<"U+D801", "U+DC0D">>, <<"U+D801", "U+DC0E">>,
    <<"U+D801", "U+DC0F">>, <<"U+D801", "U+DC10">>, <<"U+D801", "U+DC11">>,
    <<"U+D801", "U+DC12">>, <<"U+D801", "U+DC13">>, <<"U+D801", "U+DC14">>,
    <<"U+D801", "U+DC15">>, <<"U+D801", "U+DC16">>, <<"U+D801", "U+DC17">>,
    <<"U+D801", "U+DC18">>, <<"U+D801", "U+DC19">>, <<"U+D801", "U+DC1A">>,
    <<"U+D801", "U+DC1B">>, <<"U+D801", "U+DC1C">>, <<"U+D801", "U+DC1D">>,
    <<"U+D801", "U+DC1E">>, <<"U+D801", "U+DC1F">>, <<"U+D801", "U+DC20">>,
    <<"U+D801", "U+DC21">>, <<"U+D801", "U+DC22">>, <<"U+D801", "U+DC23">>,
    <<"U+D801", "U+DC24">>, <<"U+D801", "U+DC25">>, <<"U+D801", "U+DC26">>,
    <<"U+D801", "U+DC27">>, <<"U+D801", "U+DCB0">>, <<"U+D801", "U+DCB1">>,
    <<"U+D801", "U+DCB2">>, <<"U+D801", "U+DCB3">>, <<"U+D801", "U+DCB4">>,
    <<"U+D801", "U+DCB5">>, <<"U+D801", "U+DCB6">>, <<"U+D801", "U+DCB7">>,
    <<"U+D801", "U+DCB8">>, <<"U+D801", "U+DCB9">>, <<"U+D801", "U+DCBA">>,
    <<"U+D801", "U+DCBB">>, <<"U+D801", "U+DCBC">>, <<"U+D801", "U+DCBD">>,
    <<"U+D801", "U+DCBE">>, <<"U+D801", "U+DCBF">>, <<"U+D801", "U+DCC0">>,
    <<"U+D801", "U+DCC1">>, <<"U+D801", "U+DCC2">>, <<"U+D801", "U+DCC3">>,
    <<"U+D801", "U+DCC4">>, <<"U+D801", "U+DCC5">>, <<"U+D801", "U+DCC6">>,
    <<"U+D801", "U+DCC7">>, <<"U+D801", "U+DCC8">>, <<"U+D801", "U+DCC9">>,
    <<"U+D801", "U+DCCA">>, <<"U+D801", "U+DCCB">>, <<"U+D801", "U+DCCC">>,
    <<"U+D801", "U+DCCD">>, <<"U+D801", "U+DCCE">>, <<"U+D801", "U+DCCF">>,
    <<"U+D801", "U+DCD0">>, <<"U+D801", "U+DCD1">>, <<"U+D801", "U+DCD2">>,
    <<"U+D801", "U+DCD3">>, <<"U+D801", "U+DD70">>, <<"U+D801", "U+DD71">>,
    <<"U+D801", "U+DD72">>, <<"U+D801", "U+DD73">>, <<"U+D801", "U+DD74">>,
    <<"U+D801", "U+DD75">>, <<"U+D801", "U+DD76">>, <<"U+D801", "U+DD77">>,
    <<"U+D801", "U+DD78">>, <<"U+D801", "U+DD79">>, <<"U+D801", "U+DD7A">>,
    <<"U+D801", "U+DD7C">>, <<"U+D801", "U+DD7D">>, <<"U+D801", "U+DD7E">>,
    <<"U+D801", "U+DD7F">>, <<"U+D801", "U+DD80">>, <<"U+D801", "U+DD81">>,
    <<"U+D801", "U+DD82">>, <<"U+D801", "U+DD83">>, <<"U+D801", "U+DD84">>,
    <<"U+D801", "U+DD85">>, <<"U+D801", "U+DD86">>, <<"U+D801", "U+DD87">>,
    <<"U+D801", "U+DD88">>, <<"U+D801", "U+DD89">>, <<"U+D801", "U+DD8A">>,
    <<"U+D801", "U+DD8C">>, <<"U+D801", "U+DD8D">>, <<"U+D801", "U+DD8E">>,
    <<"U+D801", "U+DD8F">>, <<"U+D801", "U+DD90">>, <<"U+D801", "U+DD91">>,
    <<"U+D801", "U+DD92">>, <<"U+D801", "U+DD94">>, <<"U+D801", "U+DD95">>,
    <<"U+D803", "U+DC80">>, <<"U+D803", "U+DC81">>, <<"U+D803", "U+DC82">>,
    <<"U+D803", "U+DC83">>, <<"U+D803", "U+DC84">>, <<"U+D803", "U+DC85">>,
    <<"U+D803", "U+DC86">>, <<"U+D803", "U+DC87">>, <<"U+D803", "U+DC88">>,
    <<"U+D803", "U+DC89">>, <<"U+D803", "U+DC8A">>, <<"U+D803", "U+DC8B">>,
    <<"U+D803", "U+DC8C">>, <<"U+D803", "U+DC8D">>, <<"U+D803", "U+DC8E">>,
    <<"U+D803", "U+DC8F">>, <<"U+D803", "U+DC90">>, <<"U+D803", "U+DC91">>,
    <<"U+D803", "U+DC92">>, <<"U+D803", "U+DC93">>, <<"U+D803", "U+DC94">>,
    <<"U+D803", "U+DC95">>, <<"U+D803", "U+DC96">>, <<"U+D803", "U+DC97">>,
    <<"U+D803", "U+DC98">>, <<"U+D803", "U+DC99">>, <<"U+D803", "U+DC9A">>,
    <<"U+D803", "U+DC9B">>, <<"U+D803", "U+DC9C">>, <<"U+D803", "U+DC9D">>,
    <<"U+D803", "U+DC9E">>, <<"U+D803", "U+DC9F">>, <<"U+D803", "U+DCA0">>,
    <<"U+D803", "U+DCA1">>, <<"U+D803", "U+DCA2">>, <<"U+D803", "U+DCA3">>,
    <<"U+D803", "U+DCA4">>, <<"U+D803", "U+DCA5">>, <<"U+D803", "U+DCA6">>,
    <<"U+D803", "U+DCA7">>, <<"U+D803", "U+DCA8">>, <<"U+D803", "U+DCA9">>,
    <<"U+D803", "U+DCAA">>, <<"U+D803", "U+DCAB">>, <<"U+D803", "U+DCAC">>,
    <<"U+D803", "U+DCAD">>, <<"U+D803", "U+DCAE">>, <<"U+D803", "U+DCAF">>,
    <<"U+D803", "U+DCB0">>, <<"U+D803", "U+DCB1">>, <<"U+D803", "U+DCB2">>,
    <<"U+D803", "U+DD50">>, <<"U+D803", "U+DD51">>, <<"U+D803", "U+DD52">>,
    <<"U+D803", "U+DD53">>, <<"U+D803", "U+DD54">>, <<"U+D803", "U+DD55">>,
    <<"U+D803", "U+DD56">>, <<"U+D803", "U+DD57">>, <<"U+D803", "U+DD58">>,
    <<"U+D803", "U+DD59">>, <<"U+D803", "U+DD5A">>, <<"U+D803", "U+DD5B">>,
    <<"U+D803", "U+DD5C">>, <<"U+D803", "U+DD5D">>, <<"U+D803", "U+DD5E">>,
    <<"U+D803", "U+DD5F">>, <<"U+D803", "U+DD60">>, <<"U+D803", "U+DD61">>,
    <<"U+D803", "U+DD62">>, <<"U+D803", "U+DD63">>, <<"U+D803", "U+DD64">>,
    <<"U+D803", "U+DD65">>, <<"U+D806", "U+DCA0">>, <<"U+D806", "U+DCA1">>,
    <<"U+D806", "U+DCA2">>, <<"U+D806", "U+DCA3">>, <<"U+D806", "U+DCA4">>,
    <<"U+D806", "U+DCA5">>, <<"U+D806", "U+DCA6">>, <<"U+D806", "U+DCA7">>,
    <<"U+D806", "U+DCA8">>, <<"U+D806", "U+DCA9">>, <<"U+D806", "U+DCAA">>,
    <<"U+D806", "U+DCAB">>, <<"U+D806", "U+DCAC">>, <<"U+D806", "U+DCAD">>,
    <<"U+D806", "U+DCAE">>, <<"U+D806", "U+DCAF">>, <<"U+D806", "U+DCB0">>,
    <<"U+D806", "U+DCB1">>, <<"U+D806", "U+DCB2">>, <<"U+D806", "U+DCB3">>,
    <<"U+D806", "U+DCB4">>, <<"U+D806", "U+DCB5">>, <<"U+D806", "U+DCB6">>,
    <<"U+D806", "U+DCB7">>, <<"U+D806", "U+DCB8">>, <<"U+D806", "U+DCB9">>,
    <<"U+D806", "U+DCBA">>, <<"U+D806", "U+DCBB">>, <<"U+D806", "U+DCBC">>,
    <<"U+D806", "U+DCBD">>, <<"U+D806", "U+DCBE">>, <<"U+D806", "U+DCBF">>,
    <<"U+D81B", "U+DE40">>, <<"U+D81B", "U+DE41">>, <<"U+D81B", "U+DE42">>,
    <<"U+D81B", "U+DE43">>, <<"U+D81B", "U+DE44">>, <<"U+D81B", "U+DE45">>,
    <<"U+D81B", "U+DE46">>, <<"U+D81B", "U+DE47">>, <<"U+D81B", "U+DE48">>,
    <<"U+D81B", "U+DE49">>, <<"U+D81B", "U+DE4A">>, <<"U+D81B", "U+DE4B">>,
    <<"U+D81B", "U+DE4C">>, <<"U+D81B", "U+DE4D">>, <<"U+D81B", "U+DE4E">>,
    <<"U+D81B", "U+DE4F">>, <<"U+D81B", "U+DE50">>, <<"U+D81B", "U+DE51">>,
    <<"U+D81B", "U+DE52">>, <<"U+D81B", "U+DE53">>, <<"U+D81B", "U+DE54">>,
    <<"U+D81B", "U+DE55">>, <<"U+D81B", "U+DE56">>, <<"U+D81B", "U+DE57">>,
    <<"U+D81B", "U+DE58">>, <<"U+D81B", "U+DE59">>, <<"U+D81B", "U+DE5A">>,
    <<"U+D81B", "U+DE5B">>, <<"U+D81B", "U+DE5C">>, <<"U+D81B", "U+DE5D">>,
    <<"U+D81B", "U+DE5E">>, <<"U+D81B", "U+DE5F">>, <<"U+D81B", "U+DEA0">>,
    <<"U+D81B", "U+DEA1">>, <<"U+D81B", "U+DEA2">>, <<"U+D81B", "U+DEA3">>,
    <<"U+D81B", "U+DEA4">>, <<"U+D81B", "U+DEA5">>, <<"U+D81B", "U+DEA6">>,
    <<"U+D81B", "U+DEA7">>, <<"U+D81B", "U+DEA8">>, <<"U+D81B", "U+DEA9">>,
    <<"U+D81B", "U+DEAA">>, <<"U+D81B", "U+DEAB">>, <<"U+D81B", "U+DEAC">>,
    <<"U+D81B", "U+DEAD">>, <<"U+D81B", "U+DEAE">>, <<"U+D81B", "U+DEAF">>,
    <<"U+D81B", "U+DEB0">>, <<"U+D81B", "U+DEB1">>, <<"U+D81B", "U+DEB2">>,
    <<"U+D81B", "U+DEB3">>, <<"U+D81B", "U+DEB4">>, <<"U+D81B", "U+DEB5">>,
    <<"U+D81B", "U+DEB6">>, <<"U+D81B", "U+DEB7">>, <<"U+D81B", "U+DEB8">>,
    <<"U+D83A", "U+DD00">>, <<"U+D83A", "U+DD01">>, <<"U+D83A", "U+DD02">>,
    <<"U+D83A", "U+DD03">>, <<"U+D83A", "U+DD04">>, <<"U+D83A", "U+DD05">>,
    <<"U+D83A", "U+DD06">>, <<"U+D83A", "U+DD07">>, <<"U+D83A", "U+DD08">>,
    <<"U+D83A", "U+DD09">>, <<"U+D83A", "U+DD0A">>, <<"U+D83A", "U+DD0B">>,
    <<"U+D83A", "U+DD0C">>, <<"U+D83A", "U+DD0D">>, <<"U+D83A", "U+DD0E">>,
    <<"U+D83A", "U+DD0F">>, <<"U+D83A", "U+DD10">>, <<"U+D83A", "U+DD11">>,
    <<"U+D83A", "U+DD12">>, <<"U+D83A", "U+DD13">>, <<"U+D83A", "U+DD14">>,
    <<"U+D83A", "U+DD15">>, <<"U+D83A", "U+DD16">>, <<"U+D83A", "U+DD17">>,
    <<"U+D83A", "U+DD18">>, <<"U+D83A", "U+DD19">>, <<"U+D83A", "U+DD1A">>,
    <<"U+D83A", "U+DD1B">>, <<"U+D83A", "U+DD1C">>, <<"U+D83A", "U+DD1D">>,
    <<"U+D83A", "U+DD1E">>, <<"U+D83A", "U+DD1F">>, <<"U+D83A", "U+DD20">>,
    <<"U+D83A", "U+DD21">>>>

LowerPairs ==
  <<<<"U+D801", "U+DC28">>, <<"U+D801", "U+DC29">>, <<"U+D801", "U+DC2A">>,
    <<"U+D801", "U+DC2B">>, <<"U+D801", "U+DC2C">>, <<"U+D801", "U+DC2D">>,
    <<"U+D801", "U+DC2E">>, <<"U+D801", "U+DC2F">>, <<"U+D801", "U+DC30">>,
    <<"U+D801", "U+DC31">>, <<"U+D801", "U+DC32">>, <<"U+D801", "U+DC33">>,
    <<"U+D801", "U+DC34">>, <<"U+D801", "U+DC35">>, <<"U+D801", "U+DC36">>,
    <<"U+D801", "U+DC37">>, <<"U+D801", "U+DC38">>, <<"U+D801", "U+DC39">>,
    <<"U+D801", "U+DC3A">>, <<"U+D801", "U+DC3B">>, <<"U+D801", "U+DC3C">>,
    <<"U+D801", "U+DC3D">>, <<"U+D801", "U+DC3E">>, <<"U+D801", "U+DC3F">>,
    <<"U+D801", "U+DC40">>, <<"U+D801", "U+DC41">>, <<"U+D801", "U+DC42">>,
    <<"U+D801", "U+DC43">>, <<"U+D801", "U+DC44">>, <<"U+D801", "U+DC45">>,
    <<"U+D801", "U+DC46">>, <<"U+D801", "U+DC47">>, <<"U+D801", "U+DC48">>,
    <<"U+D801", "U+DC49">>, <<"U+D801", "U+DC4A">>, <<"U+D801", "U+DC4B">>,
    <<"U+D801", "U+DC4C">>, <<"U+D801", "U+DC4D">>, <<"U+D801", "U+DC4E">>,
    <<"U+D801", "U+DC4F">>, <<"U+D801", "U+DCD8">>, <<"U+D801", "U+DCD9">>,
    <<"U+D801", "U+DCDA">>, <<"U+D801", "U+DCDB">>, <<"U+D801", "U+DCDC">>,
    <<"U+D801", "U+DCDD">>, <<"U+D801", "U+DCDE">>, <<"U+D801", "U+DCDF">>,
    <<"U+D801", "U+DCE0">>, <<"U+D801", "U+DCE1">>, <<"U+D801", "U+DCE2">>,
    <<"U+D801", "U+DCE3">>, <<"U+D801", "U+DCE4">>, <<"U+D801", "U+DCE5">>,
    <<"U+D801", "U+DCE6">>, <<"U+D801", "U+DCE7">>, <<"U+D801", "U+DCE8">>,
    <<"U+D801", "U+DCE9">>, <<"U+D801", "U+DCEA">>, <<"U+D801", "U+DCEB">>,
    <<"U+D801", "U+DCEC">>, <<"U+D801", "U+DCED">>, <<"U+D801", "U+DCEE">>,
    <<"U+D801", "U+DCEF">>, <<"U+D801", "U+DCF0">>, <<"U+D801", "U+DCF1">>,
    <<"U+D801", "U+DCF2">>, <<"U+D801", "U+DCF3">>, <<"U+D801", "U+DCF4">>,
    <<"U+D801", "U+DCF5">>, <<"U+D801", "U+DCF6">>, <<"U+D801", "U+DCF7">>,
    <<"U+D801", "U+DCF8">>, <<"U+D801", "U+DCF9">>, <<"U+D801", "U+DCFA">>,
    <<"U+D801", "U+DCFB">>, <<"U+D801", "U+DD97">>, <<"U+D801", "U+DD98">>,
    <<"U+D801", "U+DD99">>, <<"U+D801", "U+DD9A">>, <<"U+D801", "U+DD9B">>,
    <<"U+D801", "U+DD9C">>, <<"U+D801", "U+DD9D">>, <<"U+D801", "U+DD9E">>,
    <<"U+D801", "U+DD9F">>, <<"U+D801", "U+DDA0">>, <<"U+D801", "U+DDA1">>,
    <<"U+D801", "U+DDA3">>, <<"U+D801", "U+DDA4">>, <<"U+D801", "U+DDA5">>,
    <<"U+D801", "U+DDA6">>, <<"U+D801", "U+DDA7">>, <<"U+D801", "U+DDA8">>,
    <<"U+D801", "U+DDA9">>, <<"U+D801", "U+DDAA">>, <<"U+D801", "U+DDAB">>,
    <<"U+D801", "U+DDAC">>, <<"U+D801", "U+DDAD">>, <<"U+D801", "U+DDAE">>,
    <<"U+D801", "U+DDAF">>, <<"U+D801", "U+DDB0">>, <<"U+D801", "U+DDB1">>,
    <<"U+D801", "U+DDB3">>, <<"U+D801", "U+DDB4">>, <<"U+D801", "U+DDB5">>,
    <<"U+D801", "U+DDB6">>, <<"U+D801", "U+DDB7">>, <<"U+D801", "U+DDB8">>,
    <<"U+D801", "U+DDB9">>, <<"U+D801", "U+DDBB">>, <<"U+D801", "U+DDBC">>,
    <<"U+D803", "U+DCC0">>, <<"U+D803", "U+DCC1">>, <<"U+D803", "U+DCC2">>,
    <<"U+D803", "U+DCC3">>, <<"U+D803", "U+DCC4">>, <<"U+D803", "U+DCC5">>,
    <<"U+D803", "U+DCC6">>, <<"U+D803", "U+DCC7">>, <<"U+D803", "U+DCC8">>,
    <<"U+D803", "U+DCC9">>, <<"U+D803", "U+DCCA">>, <<"U+D803", "U+DCCB">>,
    <<"U+D803", "U+DCCC">>, <<"U+D803", "U+DCCD">>, <<"U+D803", "U+DCCE">>,
    <<"U+D803", "U+DCCF">>, <<"U+D803", "U+DCD0">>, <<"U+D803", "U+DCD1">>,
    <<"U+D803", "U+DCD2">>, <<"U+D803", "U+DCD3">>, <<"U+D803", "U+DCD4">>,
    <<"U+D803", "U+DCD5">>, <<"U+D803", "U+DCD6">>, <<"U+D803", "U+DCD7">>,
    <<"U+D803", "U+DCD8">>, <<"U+D803", "U+DCD9">>, <<"U+D803", "U+DCDA">>,
    <<"U+D803", "U+DCDB">>, <<"U+D803", "U+DCDC">>, <<"U+D803", "U+DCDD">>,
    <<"U+D803", "U+DCDE">>, <<"U+D803", "U+DCDF">>, <<"U+D803", "U+DCE0">>,
    <<"U+D803", "U+DCE1">>, <<"U+D803", "U+DCE2">>, <<"U+D803", "U+DCE3">>,
    <<"U+D803", "U+DCE4">>, <<"U+D803", "U+DCE5">>, <<"U+D803", "U+DCE6">>,
    <<"U+D803", "U+DCE7">>, <<"U+D803", "U+DCE8">>, <<"U+D803", "U+DCE9">>,
    <<"U+D803", "U+DCEA">>, <<"U+D803", "U+DCEB">>, <<"U+D803", "U+DCEC">>,
    <<"U+D803", "U+DCED">>, <<"U+D803", "U+DCEE">>, <<"U+D803", "U+DCEF">>,
    <<"U+D803", "U+DCF0">>, <<"U+D803", "U+DCF1">>, <<"U+D803", "U+DCF2">>,
    <<"U+D803", "U+DD70">>, <<"U+D803", "U+DD71">>, <<"U+D803", "U+DD72">>,
    <<"U+D803", "U+DD73">>, <<"U+D803", "U+DD74">>, <<"U+D803", "U+DD75">>,
    <<"U+D803", "U+DD76">>, <<"U+D803", "U+DD77">>, <<"U+D803", "U+DD78">>,
    <<"U+D803", "U+DD79">>, <<"U+D803", "U+DD7A">>, <<"U+D803", "U+DD7B">>,
    <<"U+D803", "U+DD7C">>, <<"U+D803", "U+DD7D">>, <<"U+D803", "U+DD7E">>,
    <<"U+D803", "U+DD7F">>, <<"U+D803", "U+DD80">>, <<"U+D803", "U+DD81">>,
    <<"U+D803", "U+DD82">>, <<"U+D803", "U+DD83">>, <<"U+D803", "U+DD84">>,
    <<"U+D803", "U+DD85">>, <<"U+D806", "U+DCC0">>, <<"U+D806", "U+DCC1">>,
    <<"U+D806", "U+DCC2">>, <<"U+D806", "U+DCC3">>, <<"U+D806", "U+DCC4">>,
    <<"U+D806", "U+DCC5">>, <<"U+D806", "U+DCC6">>, <<"U+D806", "U+DCC7">>,
    <<"U+D806", "U+DCC8">>, <<"U+D806", "U+DCC9">>, <<"U+D806", "U+DCCA">>,
    <<"U+D806", "U+DCCB">>, <<"U+D806", "U+DCCC">>, <<"U+D806", "U+DCCD">>,
    <<"U+D806", "U+DCCE">>, <<"U+D806", "U+DCCF">>, <<"U+D806", "U+DCD0">>,
    <<"U+D806", "U+DCD1">>, <<"U+D806", "U+DCD2">>, <<"U+D806", "U+DCD3">>,
    <<"U+D806", "U+DCD4">>, <<"U+D806", "U+DCD5">>, <<"U+D806", "U+DCD6">>,
    <<"U+D806", "U+DCD7">>, <<"U+D806", "U+DCD8">>, <<"U+D806", "U+DCD9">>,
    <<"U+D806", "U+DCDA">>, <<"U+D806", "U+DCDB">>, <<"U+D806", "U+DCDC">>,
    <<"U+D806", "U+DCDD">>, <<"U+D806", "U+DCDE">>, <<"U+D806", "U+DCDF">>,
    <<"U+D81B", "U+DE60">>, <<"U+D81B", "U+DE61">>, <<"U+D81B", "U+DE62">>,
    <<"U+D81B", "U+DE63">>, <<"U+D81B", "U+DE64">>, <<"U+D81B", "U+DE65">>,
    <<"U+D81B", "U+DE66">>, <<"U+D81B", "U+DE67">>, <<"U+D81B", "U+DE68">>,
    <<"U+D81B", "U+DE69">>, <<"U+D81B", "U+DE6A">>, <<"U+D81B", "U+DE6B">>,
    <<"U+D81B", "U+DE6C">>, <<"U+D81B", "U+DE6D">>, <<"U+D81B", "U+DE6E">>,
    <<"U+D81B", "U+DE6F">>, <<"U+D81B", "U+DE70">>, <<"U+D81B", "U+DE71">>,
    <<"U+D81B", "U+DE72">>, <<"U+D81B", "U+DE73">>, <<"U+D81B", "U+DE74">>,
    <<"U+D81B", "U+DE75">>, <<"U+D81B", "U+DE76">>, <<"U+D81B", "U+DE77">>,
    <<"U+D81B", "U+DE78">>, <<"U+D81B", "U+DE79">>, <<"U+D81B", "U+DE7A">>,
    <<"U+D81B", "U+DE7B">>, <<"U+D81B", "U+DE7C">>, <<"U+D81B", "U+DE7D">>,
    <<"U+D81B", "U+DE7E">>, <<"U+D81B", "U+DE7F">>, <<"U+D81B", "U+DEBB">>,
    <<"U+D81B", "U+DEBC">>, <<"U+D81B", "U+DEBD">>, <<"U+D81B", "U+DEBE">>,
    <<"U+D81B", "U+DEBF">>, <<"U+D81B", "U+DEC0">>, <<"U+D81B", "U+DEC1">>,
    <<"U+D81B", "U+DEC2">>, <<"U+D81B", "U+DEC3">>, <<"U+D81B", "U+DEC4">>,
    <<"U+D81B", "U+DEC5">>, <<"U+D81B", "U+DEC6">>, <<"U+D81B", "U+DEC7">>,
    <<"U+D81B", "U+DEC8">>, <<"U+D81B", "U+DEC9">>, <<"U+D81B", "U+DECA">>,
    <<"U+D81B", "U+DECB">>, <<"U+D81B", "U+DECC">>, <<"U+D81B", "U+DECD">>,
    <<"U+D81B", "U+DECE">>, <<"U+D81B", "U+DECF">>, <<"U+D81B", "U+DED0">>,
    <<"U+D81B", "U+DED1">>, <<"U+D81B", "U+DED2">>, <<"U+D81B", "U+DED3">>,
    <<"U+D83A", "U+DD22">>, <<"U+D83A", "U+DD23">>, <<"U+D83A", "U+DD24">>,
    <<"U+D83A", "U+DD25">>, <<"U+D83A", "U+DD26">>, <<"U+D83A", "U+DD27">>,
    <<"U+D83A", "U+DD28">>, <<"U+D83A", "U+DD29">>, <<"U+D83A", "U+DD2A">>,
    <<"U+D83A", "U+DD2B">>, <<"U+D83A", "U+DD2C">>, <<"U+D83A", "U+DD2D">>,
    <<"U+D83A", "U+DD2E">>, <<"U+D83A", "U+DD2F">>, <<"U+D83A", "U+DD30">>,
    <<"U+D83A", "U+DD31">>, <<"U+D83A", "U+DD32">>, <<"U+D83A", "U+DD33">>,
    <<"U+D83A", "U+DD34">>, <<"U+D83A", "U+DD35">>, <<"U+D83A", "U+DD36">>,
    <<"U+D83A", "U+DD37">>, <<"U+D83A", "U+DD38">>, <<"U+D83A", "U+DD39">>,
    <<"U+D83A", "U+DD3A">>, <<"U+D83A", "U+DD3B">>, <<"U+D83A", "U+DD3C">>,
    <<"U+D83A", "U+DD3D">>, <<"U+D83A", "U+DD3E">>, <<"U+D83A", "U+DD3F">>,
    <<"U+D83A", "U+DD40">>, <<"U+D83A", "U+DD41">>, <<"U+D83A", "U+DD42">>,
    <<"U+D83A", "U+DD43">>>>

\* The cased letters that are not case-ignorable (property Cased).
Cased ==
  {"A", "B", "C", "D", "E", "F", "G", "H", "I", "J", "K", "L", "M", "N", "O", "P", "Q", "R", "S",
   "T", "U", "V", "W", "X", "Y", "Z", "a", "b", "c", "d", "e", "f", "g", "h", "i", "j", "k", "l",
   "m", "n", "o", "p", "q", "r", "s", "t", "u", "v", "w", "x", "y", "z", "ª", "µ", "º", "À", "Á",
   "Â", "Ã", "Ä", "Å", "Æ", "Ç", "È", "É", "Ê", "Ë", "Ì", "Í", "Î", "Ï", "Ð", "Ñ", "Ò", "Ó", "Ô",
   "Õ", "Ö", "Ø", "Ù", "Ú", "Û", "Ü", "Ý", "Þ", "ß", "à", "á", "â", "ã", "ä", "å", "æ", "ç", "è",
   "é", "ê", "ë", "ì", "í", "î", "ï", "ð", "ñ", "ò", "ó", "ô", "õ", "ö", "ø", "ù", "ú", "û", "ü",
   "ý", "þ", "ÿ", "U+0100", "U+0101", "U+0102", "U+0103", "U+0104", "U+0105", "U+0106", "U+0107",
   "U+0108", "U+0109", "U+010A", "U+010B", "U+010C", "U+010D", "U+010E", "U+010F", "U+0110",
   "U+0111", "U+0112", "U+0113", "U+0114", "U+0115", "U+0116", "U+0117", "U+0118", "U+0119",
   "U+011A", "U+011B", "U+011C", "U+011D", "U+011E", "U+011F", "U+0120", "U+0121", "U+0122",
   "U+0123", "U+0124", "U+0125", "U+0126", "U+0127", "U+0128", "U+0129", "U+012A", "U+012B",
   "U+012C", "U+012D", "U+012E", "U+012F", "U+0130", "U+0131", "U+0132", "U+0133", "U+0134",
   "U+0135", "U+0136", "U+0137", "U+0138", "U+0139", "U+013A", "U+013B", "U+013C", "U+013D",
   "U+013E", "U+013F", "U+0140", "U+0141", "U+0142", "U+0143", "U+0144", "U+0145", "U+0146",
   "U+0147", "U+0148", "U+0149", "U+014A", "U+014B", "U+014C", "U+014D", "U+014E", "U+014F",
   "U+0150", "U+0151", "U+0152", "U+0153", "U+0154", "U+0155", "U+0156", "U+0157", "U+0158",
   "U+0159", "U+015A", "U+015B", "U+015C", "U+015D", "U+015E", "U+015F", "U+0160", "U+0161",
   "U+0162", "U+0163", "U+0164", "U+0165", "U+0166", "U+0167", "U+0168", "U+0169", "U+016A",
   "U+016B", "U+016C", "U+016D", "U+016E", "U+016F", "U+0170", "U+0171", "U+0172", "U+0173",
   "U+0174", "U+0175", "U+0176", "U+0177", "U+0178", "U+0179", "U+017A", "U+017B", "U+017C",
   "U+017D", "U+017E", "U+017F", "U+0180", "U+0181", "U+0182", "U+0183", "U+0184", "U+0185",
   "U+0186", "U+0187", "U+0188", "U+0189", "U+018A", "U+018B", "U+018C", "U+018D", "U+018E",
   "U+018F", "U+0190", "U+0191", "U+0192", "U+0193", "U+0194", "U+0195", "U+0196", "U+0197",
   "U+0198", "U+0199", "U+019A", "U+019B", "U+019C", "U+019D", "U+019E", "U+019F", "U+01A0",
   "U+01A1", "U+01A2", "U+01A3", "U+01A4", "U+01A5", "U+01A6", "U+01A7", "U+01A8", "U+01A9",
   "U+01AA", "U+01AB", "U+01AC", "U+01AD", "U+01AE", "U+01AF", "U+01B0", "U+01B1", "U+01B2",
   "U+01B3", "U+01B4", "U+01B5", "U+01B6", "U+01B7", "U+01B8", "U+01B9", "U+01BA", "U+01BC",
   "U+01BD", "U+01BE", "U+01BF", "U+01C4", "U+01C5", "U+01C6", "U+01C7", "U+01C8", "U+01C9",
   "U+01CA", "U+01CB", "U+01CC", "U+01CD", "U+01CE", "U+01CF", "U+01D0", "U+01D1", "U+01D2",
   "U+01D3", "U+01D4", "U+01D5", "U+01D6", "U+01D7", "U+01D8", "U+01D9", "U+01DA", "U+01DB",
   "U+01DC", "U+01DD", "U+01DE", "U+01DF", "U+01E0", "U+01E1", "U+01E2", "U+01E3", "U+01E4",
   "U+01E5", "U+01E6", "U+01E7", "U+01E8", "U+01E9", "U+01EA", "U+01EB", "U+01EC", "U+01ED",
   "U+01EE", "U+01EF", "U+01F0", "U+01F1", "U+01F2", "U+01F3", "U+01F4", "U+01F5", "U+01F6",
   "U+01F7", "U+01F8", "U+01F9", "U+01FA", "U+01FB", "U+01FC", "U+01FD", "U+01FE", "U+01FF",
   "U+0200", "U+0201", "U+0202", "U+0203", "U+0204", "U+0205", "U+0206", "U+0207", "U+0208",
   "U+0209", "U+020A", "U+020B", "U+020C", "U+020D", "U+020E", "U+020F", "U+0210", "U+0211",
   "U+0212", "U+0213", "U+0214", "U+0215", "U+0216", "U+0217", "U+0218", "U+0219", "U+021A",
   "U+021B", "U+021C", "U+021D", "U+021E", "U+021F", "U+0220", "U+0221", "U+0222", "U+0223",
   "U+0224", "U+0225", "U+0226", "U+0227", "U+0228", "U+0229", "U+022A", "U+022B", "U+022C",
   "U+022D", "U+022E", "U+022F", "U+0230", "U+0231", "U+0232", "U+0233", "U+0234", "U+0235",
   "U+0236", "U+0237", "U+0238", "U+0239", "U+023A", "U+023B", "U+023C", "U+023D", "U+023E",
   "U+023F", "U+0240", "U+0241", "U+0242", "U+0243", "U+0244", "U+0245", "U+0246", "U+0247",
   "U+0248", "U+0249", "U+024A", "U+024B", "U+024C", "U+024D", "U+024E", "U+024F", "U+0250",
   "U+0251", "U+0252", "U+0253", "U+0254", "U+0255", "U+0256", "U+0257", "U+0258", "U+0259",
   "U+025A", "U+025B", "U+025C", "U+025D", "U+025E", "U+025F", "U+0260", "U+0261", "U+0262",
   "U+0263", "U+0264", "U+0265", "U+0266", "U+0267", "U+0268", "U+0269", "U+026A", "U+026B",
   "U+026C", "U+026D", "U+026E", "U+026F", "U+0270", "U+0271", "U+0272", "U+0273", "U+0274",
   "U+0275", "U+0276", "U+0277", "U+0278", "U+0279", "U+027A", "U+027B", "U+027C", "U+027D",
   "U+027E", "U+027F", "U+0280", "U+0281", "U+0282", "U+0283", "U+0284", "U+0285", "U+0286",
   "U+0287", "U+0288", "U+0289", "U+028A", "U+028B", "U+028C", "U+028D", "U+028E", "U+028F",
   "U+0290", "U+0291", "U+0292", "U+0293", "U+0296", "U+0297", "U+0298", "U+0299", "U+029A",
   "U+029B", "U+029C", "U+029D", "U+029E", "U+029F", "U+02A0", "U+02A1", "U+02A2", "U+02A3",
   "U+02A4", "U+02A5", "U+02A6", "U+02A7", "U+02A8", "U+02A9", "U+02AA", "U+02AB", "U+02AC",
   "U+02AD", "U+02AE", "U+02AF", "U+0370", "U+0371", "U+0372", "U+0373", "U+0376", "U+0377",
   "U+037B", "U+037C", "U+037D", "U+037F", "U+0386", "U+0388", "U+0389", "U+038A", "U+038C",
   "U+038E", "U+038F", "U+0390", "U+0391", "U+0392", "U+0393", "U+0394", "U+0395", "U+0396",
   "U+0397", "U+0398", "U+0399", "U+039A", "U+039B", "U+039C", "U+039D", "U+039E", "U+039F",
   "U+03A0", "U+03A1", "U+03A3", "U+03A4", "U+03A5", "U+03A6", "U+03A7", "U+03A8", "U+03A9",
   "U+03AA", "U+03AB", "U+03AC", "U+03AD", "U+03AE", "U+03AF", "U+03B0", "U+03B1", "U+03B2",
   "U+03B3", "U+03B4", "U+03B5", "U+03B6", "U+03B7", "U+03B8", "U+03B9", "U+03BA", "U+03BB",
   "U+03BC", "U+03BD", "U+03BE", "U+03BF", "U+03C0", "U+03C1", "U+03C2", "U+03C3", "U+03C4",
   "U+03C5", "U+03C6", "U+03C7", "U+03C8", "U+03C9", "U+03CA", "U+03CB", "U+03CC", "U+03CD",
   "U+03CE", "U+03CF", "U+03D0", "U+03D1", "U+03D2", "U+03D3", "U+03D4", "U+03D5", "U+03D6",
   "U+03D7", "U+03D8", "U+03D9", "U+03DA", "U+03DB", "U+03DC", "U+03DD", "U+03DE", "U+03DF",
   "U+03E0", "U+03E1", "U+03E2", "U+03E3", "U+03E4", "U+03E5", "U+03E6", "U+03E7", "U+03E8",
   "U+03E9", "U+03EA", "U+03EB", "U+03EC", "U+03ED", "U+03EE", "U+03EF", "U+03F0", "U+03F1",
   "U+03F2", "U+03F3", "U+03F4", "U+03F5", "U+03F7", "U+03F8", "U+03F9", "U+03FA", "U+03FB",
   "U+03FC", "U+03FD", "U+03FE", "U+03FF", "U+0400", "U+0401", "U+0402", "U+0403", "U+0404",
   "U+0405", "U+0406", "U+0407", "U+0408", "U+0409", "U+040A", "U+040B", "U+040C", "U+040D",
   "U+040E", "U+040F", "U+0410", "U+0411", "U+0412", "U+0413", "U+0414", "U+0415", "U+0416",
   "U+0417", "U+0418", "U+0419", "U+041A", "U+041B", "U+041C", "U+041D", "U+041E", "U+041F",
   "U+0420", "U+0421", "U+0422", "U+0423", "U+0424", "U+0425", "U+0426", "U+0427", "U+0428",
   "U+0429", "U+042A", "U+042B", "U+042C", "U+042D", "U+042E", "U+042F", "U+0430", "U+0431",
   "U+0432", "U+0433", "U+0434", "U+0435", "U+0436", "U+0437", "U+0438", "U+0439", "U+043A",
   "U+043B", "U+043C", "U+043D", "U+043E", "U+043F", "U+0440", "U+0441", "U+0442", "U+0443",
   "U+0444", "U+0445", "U+0446", "U+0447", "U+0448", "U+0449", "U+044A", "U+044B", "U+044C",
   "U+044D", "U+044E", "U+044F", "U+0450", "U+0451", "U+0452", "U+0453", "U+0454", "U+0455",
   "U+0456", "U+0457", "U+0458", "U+0459", "U+045A", "U+045B", "U+045C", "U+045D", "U+045E",
   "U+045F", "U+0460", "U+0461", "U+0462", "U+0463", "U+0464", "U+0465", "U+0466", "U+0467",
   "U+0468", "U+0469", "U+046A", "U+046B", "U+046C", "U+046D", "U+046E", "U+046F", "U+0470",
   "U+0471", "U+0472", "U+0473", "U+0474", "U+0475", "U+0476", "U+0477", "U+0478", "U+0479",
   "U+047A", "U+047B", "U+047C", "U+047D", "U+047E", "U+047F", "U+0480", "U+0481", "U+048A",
   "U+048B", "U+048C", "U+048D", "U+048E", "U+048F", "U+0490", "U+0491", "U+0492", "U+0493",
   "U+0494", "U+0495", "U+0496", "U+0497", "U+0498", "U+0499", "U+049A", "U+049B", "U+049C",
   "U+049D", "U+049E", "U+049F", "U+04A0", "U+04A1", "U+04A2", "U+04A3", "U+04A4", "U+04A5",
   "U+04A6", "U+04A7", "U+04A8", "U+04A9", "U+04AA", "U+04AB", "U+04AC", "U+04AD", "U+04AE",
   "U+04AF", "U+04B0", "U+04B1", "U+04B2", "U+04B3", "U+04B4", "U+04B5", "U+04B6", "U+04B7",
   "U+04B8", "U+04B9", "U+04BA", "U+04BB", "U+04BC", "U+04BD", "U+04BE", "U+04BF", "U+04C0",
   "U+04C1", "U+04C2", "U+04C3", "U+04C4", "U+04C5", "U+04C6", "U+04C7", "U+04C8", "U+04C9",
   "U+04CA", "U+04CB", "U+04CC", "U+04CD", "U+04CE", "U+04CF", "U+04D0", "U+04D1", "U+04D2",
   "U+04D3", "U+04D4", "U+04D5", "U+04D6", "U+04D7", "U+04D8", "U+04D9", "U+04DA", "U+04DB",
   "U+04DC", "U+04DD", "U+04DE", "U+04DF", "U+04E0", "U+04E1", "U+04E2", "U+04E3", "U+04E4",
   "U+04E5", "U+04E6", "U+04E7", "U+04E8", "U+04E9", "U+04EA", "U+04EB", "U+04EC", "U+04ED",
   "U+04EE", "U+04EF", "U+04F0", "U+04F1", "U+04F2", "U+04F3", "U+04F4", "U+04F5", "U+04F6",
   "U+04F7", "U+04F8", "U+04F9", "U+04FA", "U+04FB", "U+04FC", "U+04FD", "U+04FE", "U+04FF",
   "U+0500", "U+0501", "U+0502", "U+0503", "U+0504", "U+0505", "U+0506", "U+0507", "U+0508",
   "U+0509", "U+050A", "U+050B", "U+050C", "U+050D", "U+050E", "U+050F", "U+0510", "U+0511",
   "U+0512", "U+0513", "U+0514", "U+0515", "U+0516", "U+0517", "U+0518", "U+0519", "U+051A",
   "U+051B", "U+051C", "U+051D", "U+051E", "U+051F", "U+0520", "U+0521", "U+0522", "U+0523",
   "U+0524", "U+0525", "U+0526", "U+0527", "U+0528", "U+0529", "U+052A", "U+052B", "U+052C",
   "U+052D", "U+052E", "U+052F", "U+0531", "U+0532", "U+0533", "U+0534", "U+0535", "U+0536",
   "U+0537", "U+0538", "U+0539", "U+053A", "U+053B", "U+053C", "U+053D", "U+053E", "U+053F",
   "U+0540", "U+0541", "U+0542", "U+0543", "U+0544", "U+0545", "U+0546", "U+0547", "U+0548",
   "U+0549", "U+054A", "U+054B", "U+054C", "U+054D", "U+054E", "U+054F", "U+0550", "U+0551",
   "U+0552", "U+0553", "U+0554", "U+0555", "U+0556", "U+0560", "U+0561", "U+0562", "U+0563",
   "U+0564", "U+0565", "U+0566", "U+0567", "U+0568", "U+0569", "U+056A", "U+056B", "U+056C",
   "U+056D", "U+056E", "U+056F", "U+0570", "U+0571", "U+0572", "U+0573", "U+0574", "U+0575",
   "U+0576", "U+0577", "U+0578", "U+0579", "U+057A", "U+057B", "U+057C", "U+057D", "U+057E",
   "U+057F", "U+0580", "U+0581", "U+0582", "U+0583", "U+0584", "U+0585", "U+0586", "U+0587",
   "U+0588", "U+10A0", "U+10A1", "U+10A2", "U+10A3", "U+10A4", "U+10A5", "U+10A6", "U+10A7",
   "U+10A8", "U+10A9", "U+10AA", "U+10AB", "U+10AC", "U+10AD", "U+10AE", "U+10AF", "U+10B0",
   "U+10B1", "U+10B2", "U+10B3", "U+10B4", "U+10B5", "U+10B6", "U+10B7", "U+10B8", "U+10B9",
   "U+10BA", "U+10BB", "U+10BC", "U+10BD", "U+10BE", "U+10BF", "U+10C0", "U+10C1", "U+10C2",
   "U+10C3", "U+10C4", "U+10C5", "U+10C7", "U+10CD", "U+10D0", "U+10D1", "U+10D2", "U+10D3",
   "U+10D4", "U+10D5", "U+10D6", "U+10D7", "U+10D8", "U+10D9", "U+10DA", "U+10DB", "U+10DC",
   "U+10DD", "U+10DE", "U+10DF", "U+10E0", "U+10E1", "U+10E2", "U+10E3", "U+10E4", "U+10E5",
   "U+10E6", "U+10E7", "U+10E8", "U+10E9", "U+10EA", "U+10EB", "U+10EC", "U+10ED", "U+10EE",
   "U+10EF", "U+10F0", "U+10F1", "U+10F2", "U+10F3", "U+10F4", "U+10F5", "U+10F6", "U+10F7",
   "U+10F8", "U+10F9", "U+10FA", "U+10FD", "U+10FE", "U+10FF", "U+13A0", "U+13A1", "U+13A2",
   "U+13A3", "U+13A4", "U+13A5", "U+13A6", "U+13A7", "U+13A8", "U+13A9", "U+13AA", "U+13AB",
   "U+13AC", "U+13AD", "U+13AE", "U+13AF", "U+13B0", "U+13B1", "U+13B2", "U+13B3", "U+13B4",
   "U+13B5", "U+13B6", "U+13B7", "U+13B8", "U+13B9", "U+13BA", "U+13BB", "U+13BC", "U+13BD",
   "U+13BE", "U+13BF", "U+13C0", "U+13C1", "U+13C2", "U+13C3", "U+13C4", "U+13C5", "U+13C6",
   "U+13C7", "U+13C8", "U+13C9", "U+13CA", "U+13CB", "U+13CC", "U+13CD", "U+13CE", "U+13CF",
   "U+13D0", "U+13D1", "U+13D2", "U+13D3", "U+13D4", "U+13D5", "U+13D6", "U+13D7", "U+13D8",
   "U+13D9", "U+13DA", "U+13DB", "U+13DC", "U+13DD", "U+13DE", "U+13DF", "U+13E0", "U+13E1",
   "U+13E2", "U+13E3", "U+13E4", "U+13E5", "U+13E6", "U+13E7", "U+13E8", "U+13E9", "U+13EA",
   "U+13EB", "U+13EC", "U+13ED", "U+13EE", "U+13EF", "U+13F0", "U+13F1", "U+13F2", "U+13F3",
   "U+13F4", "U+13F5", "U+13F8", "U+13F9", "U+13FA", "U+13FB", "U+13FC", "U+13FD", "U+1C80",
   "U+1C81", "U+1C82", "U+1C83", "U+1C84", "U+1C85", "U+1C86", "U+1C87", "U+1C88", "U+1C89",
   "U+1C8A", "U+1C90", "U+1C91", "U+1C92", "U+1C93", "U+1C94", "U+1C95", "U+1C96", "U+1C97",
   "U+1C98", "U+1C99", "U+1C9A", "U+1C9B", "U+1C9C", "U+1C9D", "U+1C9E", "U+1C9F", "U+1CA0",
   "U+1CA1", "U+1CA2", "U+1CA3", "U+1CA4", "U+1CA5", "U+1CA6", "U+1CA7", "U+1CA8", "U+1CA9",
   "U+1CAA", "U+1CAB", "U+1CAC", "U+1CAD", "U+1CAE", "U+1CAF", "U+1CB0", "U+1CB1", "U+1CB2",
   "U+1CB3", "U+1CB4", "U+1CB5", "U+1CB6", "U+1CB7", "U+1CB8", "U+1CB9", "U+1CBA", "U+1CBD",
   "U+1CBE", "U+1CBF", "U+1D00", "U+1D01", "U+1D02", "U+1D03", "U+1D04", "U+1D05", "U+1D06",
   "U+1D07", "U+1D08", "U+1D09", "U+1D0A", "U+1D0B", "U+1D0C", "U+1D0D", "U+1D0E", "U+1D0F",
   "U+1D10", "U+1D11", "U+1D12", "U+1D13", "U+1D14", "U+1D15", "U+1D16", "U+1D17", "U+1D18",
   "U+1D19", "U+1D1A", "U+1D1B", "U+1D1C", "U+1D1D", "U+1D1E", "U+1D1F", "U+1D20", "U+1D21",
   "U+1D22", "U+1D23", "U+1D24", "U+1D25", "U+1D26", "U+1D27", "U+1D28", "U+1D29", "U+1D2A",
   "U+1D2B", "U+1D6B", "U+1D6C", "U+1D6D", "U+1D6E", "U+1D6F", "U+1D70", "U+1D71", "U+1D72",
   "U+1D73", "U+1D74", "U+1D75", "U+1D76", "U+1D77", "U+1D79", "U+1D7A", "U+1D7B", "U+1D7C",
   "U+1D7D", "U+1D7E", "U+1D7F", "U+1D80", "U+1D81", "U+1D82", "U+1D83", "U+1D84", "U+1D85",
   "U+1D86", "U+1D87", "U+1D88", "U+1D89", "U+1D8A", "U+1D8B", "U+1D8C", "U+1D8D", "U+1D8E",
   "U+1D8F", "U+1D90", "U+1D91", "U+1D92", "U+1D93", "U+1D94", "U+1D95", "U+1D96", "U+1D97",
   "U+1D98", "U+1D99", "U+1D9A", "U+1E00", "U+1E01", "U+1E02", "U+1E03", "U+1E04", "U+1E05",
   "U+1E06", "U+1E07", "U+1E08", "U+1E09", "U+1E0A", "U+1E0B", "U+1E0C", "U+1E0D", "U+1E0E",
   "U+1E0F", "U+1E10", "U+1E11", "U+1E12", "U+1E13", "U+1E14", "U+1E15", "U+1E16", "U+1E17",
   "U+1E18", "U+1E19", "U+1E1A", "U+1E1B", "U+1E1C", "U+1E1D", "U+1E1E", "U+1E1F", "U+1E20",
   "U+1E21", "U+1E22", "U+1E23", "U+1E24", "U+1E25", "U+1E26", "U+1E27", "U+1E28", "U+1E29",
   "U+1E2A", "U+1E2B", "U+1E2C", "U+1E2D", "U+1E2E", "U+1E2F", "U+1E30", "U+1E31", "U+1E32",
   "U+1E33", "U+1E34", "U+1E35", "U+1E36", "U+1E37", "U+1E38", "U+1E39", "U+1E3A", "U+1E3B",
   "U+1E3C", "U+1E3D", "U+1E3E", "U+1E3F", "U+1E40", "U+1E41", "U+1E42", "U+1E43", "U+1E44",
   "U+1E45", "U+1E46", "U+1E47", "U+1E48", "U+1E49", "U+1E4A", "U+1E4B", "U+1E4C", "U+1E4D",
   "U+1E4E", "U+1E4F", "U+1E50", "U+1E51", "U+1E52", "U+1E53", "U+1E54", "U+1E55", "U+1E56",
   "U+1E57", "U+1E58", "U+1E59", "U+1E5A", "U+1E5B", "U+1E5C", "U+1E5D", "U+1E5E", "U+1E5F",
   "U+1E60", "U+1E61", "U+1E62", "U+1E63", "U+1E64", "U+1E65", "U+1E66", "U+1E67", "U+1E68",
   "U+1E69", "U+1E6A", "U+1E6B", "U+1E6C", "U+1E6D", "U+1E6E", "U+1E6F", "U+1E70", "U+1E71",
   "U+1E72", "U+1E73", "U+1E74", "U+1E75", "U+1E76", "U+1E77", "U+1E78", "U+1E79", "U+1E7A",
   "U+1E7B", "U+1E7C", "U+1E7D", "U+1E7E", "U+1E7F", "U+1E80", "U+1E81", "U+1E82", "U+1E83",
   "U+1E84", "U+1E85", "U+1E86", "U+1E87", "U+1E88", "U+1E89", "U+1E8A", "U+1E8B", "U+1E8C",
   "U+1E8D", "U+1E8E", "U+1E8F", "U+1E90", "U+1E91", "U+1E92", "U+1E93", "U+1E94", "U+1E95",
   "U+1E96", "U+1E97", "U+1E98", "U+1E99", "U+1E9A", "U+1E9B", "U+1E9C", "U+1E9D", "U+1E9E",
   "U+1E9F", "U+1EA0", "U+1EA1", "U+1EA2", "U+1EA3", "U+1EA4", "U+1EA5", "U+1EA6", "U+1EA7",
   "U+1EA8", "U+1EA9", "U+1EAA", "U+1EAB", "U+1EAC", "U+1EAD", "U+1EAE", "U+1EAF", "U+1EB0",
   "U+1EB1", "U+1EB2", "U+1EB3", "U+1EB4", "U+1EB5", "U+1EB6", "U+1EB7", "U+1EB8", "U+1EB9",
   "U+1EBA", "U+1EBB", "U+1EBC", "U+1EBD", "U+1EBE", "U+1EBF", "U+1EC0", "U+1EC1", "U+1EC2",
   "U+1EC3", "U+1EC4", "U+1EC5", "U+1EC6", "U+1EC7", "U+1EC8", "U+1EC9", "U+1ECA", "U+1ECB",
   "U+1ECC", "U+1ECD", "U+1ECE", "U+1ECF", "U+1ED0", "U+1ED1", "U+1ED2", "U+1ED3", "U+1ED4",
   "U+1ED5", "U+1ED6", "U+1ED7", "U+1ED8", "U+1ED9", "U+1EDA", "U+1EDB", "U+1EDC", "U+1EDD",
   "U+1EDE", "U+1EDF", "U+1EE0", "U+1EE1", "U+1EE2", "U+1EE3", "U+1EE4", "U+1EE5", "U+1EE6",
   "U+1EE7", "U+1EE8", "U+1EE9", "U+1EEA", "U+1EEB", "U+1EEC", "U+1EED", "U+1EEE", "U+1EEF",
   "U+1EF0", "U+1EF1", "U+1EF2", "U+1EF3", "U+1EF4", "U+1EF5", "U+1EF6", "U+1EF7", "U+1EF8",
   "U+1EF9", "U+1EFA", "U+1EFB", "U+1EFC", "U+1EFD", "U+1EFE", "U+1EFF", "U+1F00", "U+1F01",
   "U+1F02", "U+1F03", "U+1F04", "U+1F05", "U+1F06", "U+1F07", "U+1F08", "U+1F09", "U+1F0A",
   "U+1F0B", "U+1F0C", "U+1F0D", "U+1F0E", "U+1F0F", "U+1F10", "U+1F11", "U+1F12", "U+1F13",
   "U+1F14", "U+1F15", "U+1F18", "U+1F19", "U+1F1A", "U+1F1B", "U+1F1C", "U+1F1D", "U+1F20",
   "U+1F21", "U+1F22", "U+1F23", "U+1F24", "U+1F25", "U+1F26", "U+1F27", "U+1F28", "U+1F29",
   "U+1F2A", "U+1F2B", "U+1F2C", "U+1F2D", "U+1F2E", "U+1F2F", "U+1F30", "U+1F31", "U+1F32",
   "U+1F33", "U+1F34", "U+1F35", "U+1F36", "U+1F37", "U+1F38", "U+1F39", "U+1F3A", "U+1F3B",
   "U+1F3C", "U+1F3D", "U+1F3E", "U+1F3F", "U+1F40", "U+1F41", "U+1F42", "U+1F43", "U+1F44",
   "U+1F45", "U+1F48", "U+1F49", "U+1F4A", "U+1F4B", "U+1F4C", "U+1F4D", "U+1F50", "U+1F51",
   "U+1F52", "U+1F53", "U+1F54", "U+1F55", "U+1F56", "U+1F57", "U+1F59", "U+1F5B", "U+1F5D",
   "U+1F5F", "U+1F60", "U+1F61", "U+1F62", "U+1F63", "U+1F64", "U+1F65", "U+1F66", "U+1F67",
   "U+1F68", "U+1F69", "U+1F6A", "U+1F6B", "U+1F6C", "U+1F6D", "U+1F6E", "U+1F6F", "U+1F70",
   "U+1F71", "U+1F72", "U+1F73", "U+1F74", "U+1F75", "U+1F76", "U+1F77", "U+1F78", "U+1F79",
   "U+1F7A", "U+1F7B", "U+1F7C", "U+1F7D", "U+1F80", "U+1F81", "U+1F82", "U+1F83", "U+1F84",
   "U+1F85", "U+1F86", "U+1F87", "U+1F88", "U+1F89", "U+1F8A", "U+1F8B", "U+1F8C", "U+1F8D",
   "U+1F8E", "U+1F8F", "U+1F90", "U+1F91", "U+1F92", "U+1F93", "U+1F94", "U+1F95", "U+1F96",
   "U+1F97", "U+1F98", "U+1F99", "U+1F9A", "U+1F9B", "U+1F9C", "U+1F9D", "U+1F9E", "U+1F9F",
   "U+1FA0", "U+1FA1", "U+1FA2", "U+1FA3", "U+1FA4", "U+1FA5", "U+1FA6", "U+1FA7", "U+1FA8",
   "U+1FA9", "U+1FAA", "U+1FAB", "U+1FAC", "U+1FAD", "U+1FAE", "U+1FAF", "U+1FB0", "U+1FB1",
   "U+1FB2", "U+1FB3", "U+1FB4", "U+1FB6", "U+1FB7", "U+1FB8", "U+1FB9", "U+1FBA", "U+1FBB",
   "U+1FBC", "U+1FBE", "U+1FC2", "U+1FC3", "U+1FC4", "U+1FC6", "U+1FC7", "U+1FC8", "U+1FC9",
   "U+1FCA", "U+1FCB", "U+1FCC", "U+1FD0", "U+1FD1", "U+1FD2", "U+1FD3", "U+1FD6", "U+1FD7",
   "U+1FD8", "U+1FD9", "U+1FDA", "U+1FDB", "U+1FE0", "U+1FE1", "U+1FE2", "U+1FE3", "U+1FE4",
   "U+1FE5", "U+1FE6", "U+1FE7", "U+1FE8", "U+1FE9", "U+1FEA", "U+1FEB", "U+1FEC", "U+1FF2",
   "U+1FF3", "U+1FF4", "U+1FF6", "U+1FF7", "U+1FF8", "U+1FF9", "U+1FFA", "U+1FFB", "U+1FFC",
   "U+2102", "U+2107", "U+210A", "U+210B", "U+210C", "U+210D", "U+210E", "U+210F", "U+2110",
   "U+2111", "U+2112", "U+2113", "U+2115", "U+2119", "U+211A", "U+211B", "U+211C", "U+211D",
   "U+2124", "U+2126", "U+2128", "U+212A", "U+212B", "U+212C", "U+212D", "U+212F", "U+2130",
   "U+2131", "U+2132", "U+2133", "U+2134", "U+2139", "U+213C", "U+213D", "U+213E", "U+213F",
   "U+2145", "U+2146", "U+2147", "U+2148", "U+2149", "U+214E", "U+2160", "U+2161", "U+2162",
   "U+2163", "U+2164", "U+2165", "U+2166", "U+2167", "U+2168", "U+2169", "U+216A", "U+216B",
   "U+216C", "U+216D", "U+216E", "U+216F", "U+2170", "U+2171", "U+2172", "U+2173", "U+2174",
   "U+2175", "U+2176", "U+2177", "U+2178", "U+2179", "U+217A", "U+217B", "U+217C", "U+217D",
   "U+217E", "U+217F", "U+2183", "U+2184", "U+24B6", "U+24B7", "U+24B8", "U+24B9", "U+24BA",
   "U+24BB", "U+24BC", "U+24BD", "U+24BE", "U+24BF", "U+24C0", "U+24C1", "U+24C2", "U+24C3",
   "U+24C4", "U+24C5", "U+24C6", "U+24C7", "U+24C8", "U+24C9", "U+24CA", "U+24CB", "U+24CC",
   "U+24CD", "U+24CE", "U+24CF", "U+24D0", "U+24D1", "U+24D2", "U+24D3", "U+24D4", "U+24D5",
   "U+24D6", "U+24D7", "U+24D8", "U+24D9", "U+24DA", "U+24DB", "U+24DC", "U+24DD", "U+24DE",
   "U+24DF", "U+24E0", "U+24E1", "U+24E2", "U+24E3", "U+24E4", "U+24E5", "U+24E6", "U+24E7",
   "U+24E8", "U+24E9", "U+2C00", "U+2C01", "U+2C02", "U+2C03", "U+2C04", "U+2C05", "U+2C06",
   "U+2C07", "U+2C08", "U+2C09", "U+2C0A", "U+2C0B", "U+2C0C", "U+2C0D", "U+2C0E", "U+2C0F",
   "U+2C10", "U+2C11", "U+2C12", "U+2C13", "U+2C14", "U+2C15", "U+2C16", "U+2C17", "U+2C18",
   "U+2C19", "U+2C1A", "U+2C1B", "U+2C1C", "U+2C1D", "U+2C1E", "U+2C1F", "U+2C20", "U+2C21",
   "U+2C22", "U+2C23", "U+2C24", "U+2C25", "U+2C26", "U+2C27", "U+2C28", "U+2C29", "U+2C2A",
   "U+2C2B", "U+2C2C", "U+2C2D", "U+2C2E", "U+2C2F", "U+2C30", "U+2C31", "U+2C32", "U+2C33",
   "U+2C34", "U+2C35", "U+2C36", "U+2C37", "U+2C38", "U+2C39", "U+2C3A", "U+2C3B", "U+2C3C",
   "U+2C3D", "U+2C3E", "U+2C3F", "U+2C40", "U+2C41", "U+2C42", "U+2C43", "U+2C44", "U+2C45",
   "U+2C46", "U+2C47", "U+2C48", "U+2C49", "U+2C4A", "U+2C4B", "U+2C4C", "U+2C4D", "U+2C4E",
   "U+2C4F", "U+2C50", "U+2C51", "U+2C52", "U+2C53", "U+2C54", "U+2C55", "U+2C56", "U+2C57",
   "U+2C58", "U+2C59", "U+2C5A", "U+2C5B", "U+2C5C", "U+2C5D", "U+2C5E", "U+2C5F", "U+2C60",
   "U+2C61", "U+2C62", "U+2C63", "U+2C64", "U+2C65", "U+2C66", "U+2C67", "U+2C68", "U+2C69",
   "U+2C6A", "U+2C6B", "U+2C6C", "U+2C6D", "U+2C6E", "U+2C6F", "U+2C70", "U+2C71", "U+2C72",
   "U+2C73", "U+2C74", "U+2C75", "U+2C76", "U+2C77", "U+2C78", "U+2C79", "U+2C7A", "U+2C7B",
   "U+2C7E", "U+2C7F", "U+2C80", "U+2C81", "U+2C82", "U+2C83", "U+2C84", "U+2C85", "U+2C86",
   "U+2C87", "U+2C88", "U+2C89", "U+2C8A", "U+2C8B", "U+2C8C", "U+2C8D", "U+2C8E", "U+2C8F",
   "U+2C90", "U+2C91", "U+2C92", "U+2C93", "U+2C94", "U+2C95", "U+2C96", "U+2C97", "U+2C98",
   "U+2C99", "U+2C9A", "U+2C9B", "U+2C9C", "U+2C9D", "U+2C9E", "U+2C9F", "U+2CA0", "U+2CA1",
   "U+2CA2", "U+2CA3", "U+2CA4", "U+2CA5", "U+2CA6", "U+2CA7", "U+2CA8", "U+2CA9", "U+2CAA",
   "U+2CAB", "U+2CAC", "U+2CAD", "U+2CAE", "U+2CAF", "U+2CB0", "U+2CB1", "U+2CB2", "U+2CB3",
   "U+2CB4", "U+2CB5", "U+2CB6", "U+2CB7", "U+2CB8", "U+2CB9", "U+2CBA", "U+2CBB", "U+2CBC",
   "U+2CBD", "U+2CBE", "U+2CBF", "U+2CC0", "U+2CC1", "U+2CC2", "U+2CC3", "U+2CC4", "U+2CC5",
   "U+2CC6", "U+2CC7", "U+2CC8", "U+2CC9", "U+2CCA", "U+2CCB", "U+2CCC", "U+2CCD", "U+2CCE",
   "U+2CCF", "U+2CD0", "U+2CD1", "U+2CD2", "U+2CD3", "U+2CD4", "U+2CD5", "U+2CD6", "U+2CD7",
   "U+2CD8", "U+2CD9", "U+2CDA", "U+2CDB", "U+2CDC", "U+2CDD", "U+2CDE", "U+2CDF", "U+2CE0",
   "U+2CE1", "U+2CE2", "U+2CE3", "U+2CE4", "U+2CEB", "U+2CEC", "U+2CED", "U+2CEE", "U+2CF2",
   "U+2CF3", "U+2D00", "U+2D01", "U+2D02", "U+2D03", "U+2D04", "U+2D05", "U+2D06", "U+2D07",
   "U+2D08", "U+2D09", "U+2D0A", "U+2D0B", "U+2D0C", "U+2D0D", "U+2D0E", "U+2D0F", "U+2D10",
   "U+2D11", "U+2D12", "U+2D13", "U+2D14", "U+2D15", "U+2D16", "U+2D17", "U+2D18", "U+2D19",
   "U+2D1A", "U+2D1B", "U+2D1C", "U+2D1D", "U+2D1E", "U+2D1F", "U+2D20", "U+2D21", "U+2D22",
   "U+2D23", "U+2D24", "U+2D25", "U+2D27", "U+2D2D", "U+A640", "U+A641", "U+A642", "U+A643",
   "U+A644", "U+A645", "U+A646", "U+A647", "U+A648", "U+A649", "U+A64A", "U+A64B", "U+A64C",
   "U+A64D", "U+A64E", "U+A64F", "U+A650", "U+A651", "U+A652", "U+A653", "U+A654", "U+A655",
   "U+A656", "U+A657", "U+A658", "U+A659", "U+A65A", "U+A65B", "U+A65C", "U+A65D", "U+A65E",
   "U+A65F", "U+A660", "U+A661", "U+A662", "U+A663", "U+A664", "U+A665", "U+A666", "U+A667",
   "U+A668", "U+A669", "U+A66A", "U+A66B", "U+A66C", "U+A66D", "U+A680", "U+A681", "U+A682",
   "U+A683", "U+A684", "U+A685", "U+A686", "U+A687", "U+A688", "U+A689", "U+A68A", "U+A68B",
   "U+A68C", "U+A68D", "U+A68E", "U+A68F", "U+A690", "U+A691", "U+A692", "U+A693", "U+A694",
   "U+A695", "U+A696", "U+A697", "U+A698", "U+A699", "U+A69A", "U+A69B", "U+A722", "U+A723",
   "U+A724", "U+A725", "U+A726", "U+A727", "U+A728", "U+A729", "U+A72A", "U+A72B", "U+A72C",
   "U+A72D", "U+A72E", "U+A72F", "U+A730", "U+A731", "U+A732", "U+A733", "U+A734", "U+A735",
   "U+A736", "U+A737", "U+A738", "U+A739", "U+A73A", "U+A73B", "U+A73C", "U+A73D", "U+A73E",
   "U+A73F", "U+A740", "U+A741", "U+A742", "U+A743", "U+A744", "U+A745", "U+A746", "U+A747",
   "U+A748", "U+A749", "U+A74A", "U+A74B", "U+A74C", "U+A74D", "U+A74E", "U+A74F", "U+A750",
   "U+A751", "U+A752", "U+A753", "U+A754", "U+A755", "U+A756", "U+A757", "U+A758", "U+A759",
   "U+A75A", "U+A75B", "U+A75C", "U+A75D", "U+A75E", "U+A75F", "U+A760", "U+A761", "U+A762",
   "U+A763", "U+A764", "U+A765", "U+A766", "U+A767", "U+A768", "U+A769", "U+A76A", "U+A76B",
   "U+A76C", "U+A76D", "U+A76E", "U+A76F", "U+A771", "U+A772", "U+A773", "U+A774", "U+A775",
   "U+A776", "U+A777", "U+A778", "U+A779", "U+A77A", "U+A77B", "U+A77C", "U+A77D", "U+A77E",
   "U+A77F", "U+A780", "U+A781", "U+A782", "U+A783", "U+A784", "U+A785", "U+A786", "U+A787",
   "U+A78B", "U+A78C", "U+A78D", "U+A78E", "U+A790", "U+A791", "U+A792", "U+A793", "U+A794",
   "U+A795", "U+A796", "U+A797", "U+A798", "U+A799", "U+A79A", "U+A79B", "U+A79C", "U+A79D",
   "U+A79E", "U+A79F", "U+A7A0", "U+A7A1", "U+A7A2", "U+A7A3", "U+A7A4", "U+A7A5", "U+A7A6",
   "U+A7A7", "U+A7A8", "U+A7A9", "U+A7AA", "U+A7AB", "U+A7AC", "U+A7AD", "U+A7AE", "U+A7AF",
   "U+A7B0", "U+A7B1", "U+A7B2", "U+A7B3", "U+A7B4", "U+A7B5", "U+A7B6", "U+A7B7", "U+A7B8",
   "U+A7B9", "U+A7BA", "U+A7BB", "U+A7BC", "U+A7BD", "U+A7BE", "U+A7BF", "U+A7C0", "U+A7C1",
   "U+A7C2", "U+A7C3", "U+A7C4", "U+A7C5", "U+A7C6", "U+A7C7", "U+A7C8", "U+A7C9", "U+A7CA",
   "U+A7CB", "U+A7CC", "U+A7CD", "U+A7CE", "U+A7CF", "U+A7D0", "U+A7D1", "U+A7D2", "U+A7D3",
   "U+A7D4", "U+A7D5", "U+A7D6", "U+A7D7", "U+A7D8", "U+A7D9", "U+A7DA", "U+A7DB", "U+A7DC",
   "U+A7F5", "U+A7F6", "U+A7FA", "U+AB30", "U+AB31", "U+AB32", "U+AB33", "U+AB34", "U+AB35",
   "U+AB36", "U+AB37", "U+AB38", "U+AB39", "U+AB3A", "U+AB3B", "U+AB3C", "U+AB3D", "U+AB3E",
   "U+AB3F", "U+AB40", "U+AB41", "U+AB42", "U+AB43", "U+AB44", "U+AB45", "U+AB46", "U+AB47",
   "U+AB48", "U+AB49", "U+AB4A", "U+AB4B", "U+AB4C", "U+AB4D", "U+AB4E", "U+AB4F", "U+AB50",
   "U+AB51", "U+AB52", "U+AB53", "U+AB54", "U+AB55", "U+AB56", "U+AB57", "U+AB58", "U+AB59",
   "U+AB5A", "U+AB60", "U+AB61", "U+AB62", "U+AB63", "U+AB64", "U+AB65", "U+AB66", "U+AB67",
   "U+AB68", "U+AB70", "U+AB71", "U+AB72", "U+AB73", "U+AB74", "U+AB75", "U+AB76", "U+AB77",
   "U+AB78", "U+AB79", "U+AB7A", "U+AB7B", "U+AB7C", "U+AB7D", "U+AB7E", "U+AB7F", "U+AB80",
   "U+AB81", "U+AB82", "U+AB83", "U+AB84", "U+AB85", "U+AB86", "U+AB87", "U+AB88", "U+AB89",
   "U+AB8A", "U+AB8B", "U+AB8C", "U+AB8D", "U+AB8E", "U+AB8F", "U+AB90", "U+AB91", "U+AB92",
   "U+AB93", "U+AB94", "U+AB95", "U+AB96", "U+AB97", "U+AB98", "U+AB99", "U+AB9A", "U+AB9B",
   "U+AB9C", "U+AB9D", "U+AB9E", "U+AB9F", "U+ABA0", "U+ABA1", "U+ABA2", "U+ABA3", "U+ABA4",
   "U+ABA5", "U+ABA6", "U+ABA7", "U+ABA8", "U+ABA9", "U+ABAA", "U+ABAB", "U+ABAC", "U+ABAD",
   "U+ABAE", "U+ABAF", "U+ABB0", "U+ABB1", "U+ABB2", "U+ABB3", "U+ABB4", "U+ABB5", "U+ABB6",
   "U+ABB7", "U+ABB8", "U+ABB9", "U+ABBA", "U+ABBB", "U+ABBC", "U+ABBD", "U+ABBE", "U+ABBF",
   "U+FB00", "U+FB01", "U+FB02", "U+FB03", "U+FB04", "U+FB05", "U+FB06", "U+FB13", "U+FB14",
   "U+FB15", "U+FB16", "U+FB17", "U+FF21", "U+FF22", "U+FF23", "U+FF24", "U+FF25", "U+FF26",
   "U+FF27", "U+FF28", "U+FF29", "U+FF2A", "U+FF2B", "U+FF2C", "U+FF2D", "U+FF2E", "U+FF2F",
   "U+FF30", "U+FF31", "U+FF32", "U+FF33", "U+FF34", "U+FF35", "U+FF36", "U+FF37", "U+FF38",
   "U+FF39", "U+FF3A", "U+FF41", "U+FF42", "U+FF43", "U+FF44", "U+FF45", "U+FF46", "U+FF47",
   "U+FF48", "U+FF49", "U+FF4A", "U+FF4B", "U+FF4C", "U+FF4D", "U+FF4E", "U+FF4F", "U+FF50",
   "U+FF51", "U+FF52", "U+FF53", "U+FF54", "U+FF55", "U+FF56", "U+FF57", "U+FF58", "U+FF59",
   "U+FF5A"}

CasedPairs ==
  {<<"U+D801", lo>> : lo \in
     {"U+DC00", "U+DC01", "U+DC02", "U+DC03", "U+DC04", "U+DC05", "U+DC06", "U+DC07", "U+DC08",
      "U+DC09", "U+DC0A", "U+DC0B", "U+DC0C", "U+DC0D", "U+DC0E", "U+DC0F", "U+DC10", "U+DC11",
      "U+DC12", "U+DC13", "U+DC14", "U+DC15", "U+DC16", "U+DC17", "U+DC18", "U+DC19", "U+DC1A",
      "U+DC1B", "U+DC1C", "U+DC1D", "U+DC1E", "U+DC1F", "U+DC20", "U+DC21", "U+DC22", "U+DC23",
      "U+DC24", "U+DC25", "U+DC26", "U+DC27", "U+DC28", "U+DC29", "U+DC2A", "U+DC2B", "U+DC2C",
      "U+DC2D", "U+DC2E", "U+DC2F", "U+DC30", "U+DC31", "U+DC32", "U+DC33", "U+DC34", "U+DC35",
      "U+DC36", "U+DC37", "U+DC38", "U+DC39", "U+DC3A", "U+DC3B", "U+DC3C", "U+DC3D", "U+DC3E",
      "U+DC3F", "U+DC40", "U+DC41", "U+DC42", "U+DC43", "U+DC44", "U+DC45", "U+DC46", "U+DC47",
      "U+DC48", "U+DC49", "U+DC4A", "U+DC4B", "U+DC4C", "U+DC4D", "U+DC4E", "U+DC4F", "U+DCB0",
      "U+DCB1", "U+DCB2", "U+DCB3", "U+DCB4", "U+DCB5", "U+DCB6", "U+DCB7", "U+DCB8", "U+DCB9",
      "U+DCBA", "U+DCBB", "U+DCBC", "U+DCBD", "U+DCBE", "U+DCBF", "U+DCC0", "U+DCC1", "U+DCC2",
      "U+DCC3", "U+DCC4", "U+DCC5", "U+DCC6", "U+DCC7", "U+DCC8", "U+DCC9", "U+DCCA", "U+DCCB",
      "U+DCCC", "U+DCCD", "U+DCCE", "U+DCCF", "U+DCD0", "U+DCD1", "U+DCD2", "U+DCD3", "U+DCD8",
      "U+DCD9", "U+DCDA", "U+DCDB", "U+DCDC", "U+DCDD", "U+DCDE", "U+DCDF", "U+DCE0", "U+DCE1",
      "U+DCE2", "U+DCE3", "U+DCE4", "U+DCE5", "U+DCE6", "U+DCE7", "U+DCE8", "U+DCE9", "U+DCEA",
      "U+DCEB", "U+DCEC", "U+DCED", "U+DCEE", "U+DCEF", "U+DCF0", "U+DCF1", "U+DCF2", "U+DCF3",
      "U+DCF4", "U+DCF5", "U+DCF6", "U+DCF7", "U+DCF8", "U+DCF9", "U+DCFA", "U+DCFB", "U+DD70",
      "U+DD71", "U+DD72", "U+DD73", "U+DD74", "U+DD75", "U+DD76", "U+DD77", "U+DD78", "U+DD79",
      "U+DD7A", "U+DD7C", "U+DD7D", "U+DD7E", "U+DD7F", "U+DD80", "U+DD81", "U+DD82", "U+DD83",
      "U+DD84", "U+DD85", "U+DD86", "U+DD87", "U+DD88", "U+DD89", "U+DD8A", "U+DD8C", "U+DD8D",
      "U+DD8E", "U+DD8F", "U+DD90", "U+DD91", "U+DD92", "U+DD94", "U+DD95", "U+DD97", "U+DD98",
      "U+DD99", "U+DD9A", "U+DD9B", "U+DD9C", "U+DD9D", "U+DD9E", "U+DD9F", "U+DDA0", "U+DDA1",
      "U+DDA3", "U+DDA4", "U+DDA5", "U+DDA6", "U+DDA7", "U+DDA8", "U+DDA9", "U+DDAA", "U+DDAB",
      "U+DDAC", "U+DDAD", "U+DDAE", "U+DDAF", "U+DDB0", "U+DDB1", "U+DDB3", "U+DDB4", "U+DDB5",
      "U+DDB6", "U+DDB7", "U+DDB8", "U+DDB9", "U+DDBB", "U+DDBC"}}
    \cup
  {<<"U+D803", lo>> : lo \in
     {"U+DC80", "U+DC81", "U+DC82", "U+DC83", "U+DC84", "U+DC85", "U+DC86", "U+DC87", "U+DC88",
      "U+DC89", "U+DC8A", "U+DC8B", "U+DC8C", "U+DC8D", "U+DC8E", "U+DC8F", "U+DC90", "U+DC91",
      "U+DC92", "U+DC93", "U+DC94", "U+DC95", "U+DC96", "U+DC97", "U+DC98", "U+DC99", "U+DC9A",
      "U+DC9B", "U+DC9C", "U+DC9D", "U+DC9E", "U+DC9F", "U+DCA0", "U+DCA1", "U+DCA2", "U+DCA3",
      "U+DCA4", "U+DCA5", "U+DCA6", "U+DCA7", "U+DCA8", "U+DCA9", "U+DCAA", "U+DCAB", "U+DCAC",
      "U+DCAD", "U+DCAE", "U+DCAF", "U+DCB0", "U+DCB1", "U+DCB2", "U+DCC0", "U+DCC1", "U+DCC2",
      "U+DCC3", "U+DCC4", "U+DCC5", "U+DCC6", "U+DCC7", "U+DCC8", "U+DCC9", "U+DCCA", "U+DCCB",
      "U+DCCC", "U+DCCD", "U+DCCE", "U+DCCF", "U+DCD0", "U+DCD1", "U+DCD2", "U+DCD3", "U+DCD4",
      "U+DCD5", "U+DCD6", "U+DCD7", "U+DCD8", "U+DCD9", "U+DCDA", "U+DCDB", "U+DCDC", "U+DCDD",
      "U+DCDE", "U+DCDF", "U+DCE0", "U+DCE1", "U+DCE2", "U+DCE3", "U+DCE4", "U+DCE5", "U+DCE6",
      "U+DCE7", "U+DCE8", "U+DCE9", "U+DCEA", "U+DCEB", "U+DCEC", "U+DCED", "U+DCEE", "U+DCEF",
      "U+DCF0", "U+DCF1", "U+DCF2", "U+DD50", "U+DD51", "U+DD52", "U+DD53", "U+DD54", "U+DD55",
      "U+DD56", "U+DD57", "U+DD58", "U+DD59", "U+DD5A", "U+DD5B", "U+DD5C", "U+DD5D", "U+DD5E",
      "U+DD5F", "U+DD60", "U+DD61", "U+DD62", "U+DD63", "U+DD64", "U+DD65", "U+DD70", "U+DD71",
      "U+DD72", "U+DD73", "U+DD74", "U+DD75", "U+DD76", "U+DD77", "U+DD78", "U+DD79", "U+DD7A",
      "U+DD7B", "U+DD7C", "U+DD7D", "U+DD7E", "U+DD7F", "U+DD80", "U+DD81", "U+DD82", "U+DD83",
      "U+DD84", "U+DD85"}}
    \cup
  {<<"U+D806", lo>> : lo \in
     {"U+DCA0", "U+DCA1", "U+DCA2", "U+DCA3", "U+DCA4", "U+DCA5", "U+DCA6", "U+DCA7", "U+DCA8",
      "U+DCA9", "U+DCAA", "U+DCAB", "U+DCAC", "U+DCAD", "U+DCAE", "U+DCAF", "U+DCB0", "U+DCB1",
      "U+DCB2", "U+DCB3", "U+DCB4", "U+DCB5", "U+DCB6", "U+DCB7", "U+DCB8", "U+DCB9", "U+DCBA",
      "U+DCBB", "U+DCBC", "U+DCBD", "U+DCBE", "U+DCBF", "U+DCC0", "U+DCC1", "U+DCC2", "U+DCC3",
      "U+DCC4", "U+DCC5", "U+DCC6", "U+DCC7", "U+DCC8", "U+DCC9", "U+DCCA", "U+DCCB", "U+DCCC",
      "U+DCCD", "U+DCCE", "U+DCCF", "U+DCD0", "U+DCD1", "U+DCD2", "U+DCD3", "U+DCD4", "U+DCD5",
      "U+DCD6", "U+DCD7", "U+DCD8", "U+DCD9", "U+DCDA", "U+DCDB", "U+DCDC", "U+DCDD", "U+DCDE",
      "U+DCDF"}}
    \cup
  {<<"U+D81B", lo>> : lo \in
     {"U+DE40", "U+DE41", "U+DE42", "U+DE43", "U+DE44", "U+DE45", "U+DE46", "U+DE47", "U+DE48",
      "U+DE49", "U+DE4A", "U+DE4B", "U+DE4C", "U+DE4D", "U+DE4E", "U+DE4F", "U+DE50", "U+DE51",
      "U+DE52", "U+DE53", "U+DE54", "U+DE55", "U+DE56", "U+DE57", "U+DE58", "U+DE59", "U+DE5A",
      "U+DE5B", "U+DE5C", "U+DE5D", "U+DE5E", "U+DE5F", "U+DE60", "U+DE61", "U+DE62", "U+DE63",
      "U+DE64", "U+DE65", "U+DE66", "U+DE67", "U+DE68", "U+DE69", "U+DE6A", "U+DE6B", "U+DE6C",
      "U+DE6D", "U+DE6E", "U+DE6F", "U+DE70", "U+DE71", "U+DE72", "U+DE73", "U+DE74", "U+DE75",
      "U+DE76", "U+DE77", "U+DE78", "U+DE79", "U+DE7A", "U+DE7B", "U+DE7C", "U+DE7D", "U+DE7E",
      "U+DE7F", "U+DEA0", "U+DEA1", "U+DEA2", "U+DEA3", "U+DEA4", "U+DEA5", "U+DEA6", "U+DEA7",
      "U+DEA8", "U+DEA9", "U+DEAA", "U+DEAB", "U+DEAC", "U+DEAD", "U+DEAE", "U+DEAF", "U+DEB0",
      "U+DEB1", "U+DEB2", "U+DEB3", "U+DEB4", "U+DEB5", "U+DEB6", "U+DEB7", "U+DEB8", "U+DEBB",
      "U+DEBC", "U+DEBD", "U+DEBE", "U+DEBF", "U+DEC0", "U+DEC1", "U+DEC2", "U+DEC3", "U+DEC4",
      "U+DEC5", "U+DEC6", "U+DEC7", "U+DEC8", "U+DEC9", "U+DECA", "U+DECB", "U+DECC", "U+DECD",
      "U+DECE", "U+DECF", "U+DED0", "U+DED1", "U+DED2", "U+DED3"}}
    \cup
  {<<"U+D835", lo>> : lo \in
     {"U+DC00", "U+DC01", "U+DC02", "U+DC03", "U+DC04", "U+DC05", "U+DC06", "U+DC07", "U+DC08",
      "U+DC09", "U+DC0A", "U+DC0B", "U+DC0C", "U+DC0D", "U+DC0E", "U+DC0F", "U+DC10", "U+DC11",
      "U+DC12", "U+DC13", "U+DC14", "U+DC15", "U+DC16", "U+DC17", "U+DC18", "U+DC19", "U+DC1A",
      "U+DC1B", "U+DC1C", "U+DC1D", "U+DC1E", "U+DC1F", "U+DC20", "U+DC21", "U+DC22", "U+DC23",
      "U+DC24", "U+DC25", "U+DC26", "U+DC27", "U+DC28", "U+DC29", "U+DC2A", "U+DC2B", "U+DC2C",
      "U+DC2D", "U+DC2E", "U+DC2F", "U+DC30", "U+DC31", "U+DC32", "U+DC33", "U+DC34", "U+DC35",
      "U+DC36", "U+DC37", "U+DC38", "U+DC39", "U+DC3A", "U+DC3B", "U+DC3C", "U+DC3D", "U+DC3E",
      "U+DC3F", "U+DC40", "U+DC41", "U+DC42", "U+DC43", "U+DC44", "U+DC45", "U+DC46", "U+DC47",
      "U+DC48", "U+DC49", "U+DC4A", "U+DC4B", "U+DC4C", "U+DC4D", "U+DC4E", "U+DC4F", "U+DC50",
      "U+DC51", "U+DC52", "U+DC53", "U+DC54", "U+DC56", "U+DC57", "U+DC58", "U+DC59", "U+DC5A",
      "U+DC5B", "U+DC5C", "U+DC5D", "U+DC5E", "U+DC5F", "U+DC60", "U+DC61", "U+DC62", "U+DC63",
      "U+DC64", "U+DC65", "U+DC66", "U+DC67", "U+DC68", "U+DC69", "U+DC6A", "U+DC6B", "U+DC6C",
      "U+DC6D", "U+DC6E", "U+DC6F", "U+DC70", "U+DC71", "U+DC72", "U+DC73", "U+DC74", "U+DC75",
      "U+DC76", "U+DC77", "U+DC78", "U+DC79", "U+DC7A", "U+DC7B", "U+DC7C", "U+DC7D", "U+DC7E",
      "U+DC7F", "U+DC80", "U+DC81", "U+DC82", "U+DC83", "U+DC84", "U+DC85", "U+DC86", "U+DC87",
      "U+DC88", "U+DC89", "U+DC8A", "U+DC8B", "U+DC8C", "U+DC8D", "U+DC8E", "U+DC8F", "U+DC90",
      "U+DC91", "U+DC92", "U+DC93", "U+DC94", "U+DC95", "U+DC96", "U+DC97", "U+DC98", "U+DC99",
      "U+DC9A", "U+DC9B", "U+DC9C", "U+DC9E", "U+DC9F", "U+DCA2", "U+DCA5", "U+DCA6", "U+DCA9",
      "U+DCAA", "U+DCAB", "U+DCAC", "U+DCAE", "U+DCAF", "U+DCB0", "U+DCB1", "U+DCB2", "U+DCB3",
      "U+DCB4", "U+DCB5", "U+DCB6", "U+DCB7", "U+DCB8", "U+DCB9", "U+DCBB", "U+DCBD", "U+DCBE",
      "U+DCBF", "U+DCC0", "U+DCC1", "U+DCC2", "U+DCC3", "U+DCC5", "U+DCC6", "U+DCC7", "U+DCC8",
      "U+DCC9", "U+DCCA", "U+DCCB", "U+DCCC", "U+DCCD", "U+DCCE", "U+DCCF", "U+DCD0", "U+DCD1",
      "U+DCD2", "U+DCD3", "U+DCD4", "U+DCD5", "U+DCD6", "U+DCD7", "U+DCD8", "U+DCD9", "U+DCDA",
      "U+DCDB", "U+DCDC", "U+DCDD", "U+DCDE", "U+DCDF", "U+DCE0", "U+DCE1", "U+DCE2", "U+DCE3",
      "U+DCE4", "U+DCE5", "U+DCE6", "U+DCE7", "U+DCE8", "U+DCE9", "U+DCEA", "U+DCEB", "U+DCEC",
      "U+DCED", "U+DCEE", "U+DCEF", "U+DCF0", "U+DCF1", "U+DCF2", "U+DCF3", "U+DCF4", "U+DCF5",
      "U+DCF6", "U+DCF7", "U+DCF8", "U+DCF9", "U+DCFA", "U+DCFB", "U+DCFC", "U+DCFD", "U+DCFE",
      "U+DCFF", "U+DD00", "U+DD01", "U+DD02", "U+DD03", "U+DD04", "U+DD05", "U+DD07", "U+DD08",
      "U+DD09", "U+DD0A", "U+DD0D", "U+DD0E", "U+DD0F", "U+DD10", "U+DD11", "U+DD12", "U+DD13",
      "U+DD14", "U+DD16", "U+DD17", "U+DD18", "U+DD19", "U+DD1A", "U+DD1B", "U+DD1C", "U+DD1E",
      "U+DD1F", "U+DD20", "U+DD21", "U+DD22", "U+DD23", "U+DD24", "U+DD25", "U+DD26", "U+DD27",
      "U+DD28", "U+DD29", "U+DD2A", "U+DD2B", "U+DD2C", "U+DD2D", "U+DD2E", "U+DD2F", "U+DD30",
      "U+DD31", "U+DD32", "U+DD33", "U+DD34", "U+DD35", "U+DD36", "U+DD37", "U+DD38", "U+DD39",
      "U+DD3B", "U+DD3C", "U+DD3D", "U+DD3E", "U+DD40", "U+DD41", "U+DD42", "U+DD43", "U+DD44",
      "U+DD46", "U+DD4A", "U+DD4B", "U+DD4C", "U+DD4D", "U+DD4E", "U+DD4F", "U+DD50", "U+DD52",
      "U+DD53", "U+DD54", "U+DD55", "U+DD56", "U+DD57", "U+DD58", "U+DD59", "U+DD5A", "U+DD5B",
      "U+DD5C", "U+DD5D", "U+DD5E", "U+DD5F", "U+DD60", "U+DD61", "U+DD62", "U+DD63", "U+DD64",
      "U+DD65", "U+DD66", "U+DD67", "U+DD68", "U+DD69", "U+DD6A", "U+DD6B", "U+DD6C", "U+DD6D",
      "U+DD6E", "U+DD6F", "U+DD70", "U+DD71", "U+DD72", "U+DD73", "U+DD74", "U+DD75", "U+DD76",
      "U+DD77", "U+DD78", "U+DD79", "U+DD7A", "U+DD7B", "U+DD7C", "U+DD7D", "U+DD7E", "U+DD7F",
      "U+DD80", "U+DD81", "U+DD82", "U+DD83", "U+DD84", "U+DD85", "U+DD86", "U+DD87", "U+DD88",
      "U+DD89", "U+DD8A", "U+DD8B", "U+DD8C", "U+DD8D", "U+DD8E", "U+DD8F", "U+DD90", "U+DD91",
      "U+DD92", "U+DD93", "U+DD94", "U+DD95", "U+DD96", "U+DD97", "U+DD98", "U+DD99", "U+DD9A",
      "U+DD9B", "U+DD9C", "U+DD9D", "U+DD9E", "U+DD9F", "U+DDA0", "U+DDA1", "U+DDA2", "U+DDA3",
      "U+DDA4", "U+DDA5", "U+DDA6", "U+DDA7", "U+DDA8", "U+DDA9", "U+DDAA", "U+DDAB", "U+DDAC",
      "U+DDAD", "U+DDAE", "U+DDAF", "U+DDB0", "U+DDB1", "U+DDB2", "U+DDB3", "U+DDB4", "U+DDB5",
      "U+DDB6", "U+DDB7", "U+DDB8", "U+DDB9", "U+DDBA", "U+DDBB", "U+DDBC", "U+DDBD", "U+DDBE",
      "U+DDBF", "U+DDC0", "U+DDC1", "U+DDC2", "U+DDC3", "U+DDC4", "U+DDC5", "U+DDC6", "U+DDC7",
      "U+DDC8", "U+DDC9", "U+DDCA", "U+DDCB", "U+DDCC", "U+DDCD", "U+DDCE", "U+DDCF", "U+DDD0",
      "U+DDD1", "U+DDD2", "U+DDD3", "U+DDD4", "U+DDD5", "U+DDD6", "U+DDD7", "U+DDD8", "U+DDD9",
      "U+DDDA", "U+DDDB", "U+DDDC", "U+DDDD", "U+DDDE", "U+DDDF", "U+DDE0", "U+DDE1", "U+DDE2",
      "U+DDE3", "U+DDE4", "U+DDE5", "U+DDE6", "U+DDE7", "U+DDE8", "U+DDE9", "U+DDEA", "U+DDEB",
      "U+DDEC", "U+DDED", "U+DDEE", "U+DDEF", "U+DDF0", "U+DDF1", "U+DDF2", "U+DDF3", "U+DDF4",
      "U+DDF5", "U+DDF6", "U+DDF7", "U+DDF8", "U+DDF9", "U+DDFA", "U+DDFB", "U+DDFC", "U+DDFD",
      "U+DDFE", "U+DDFF", "U+DE00", "U+DE01", "U+DE02", "U+DE03", "U+DE04", "U+DE05", "U+DE06",
      "U+DE07", "U+DE08", "U+DE09", "U+DE0A", "U+DE0B", "U+DE0C", "U+DE0D", "U+DE0E", "U+DE0F",
      "U+DE10", "U+DE11", "U+DE12", "U+DE13", "U+DE14", "U+DE15", "U+DE16", "U+DE17", "U+DE18",
      "U+DE19", "U+DE1A", "U+DE1B", "U+DE1C", "U+DE1D", "U+DE1E", "U+DE1F", "U+DE20", "U+DE21",
      "U+DE22", "U+DE23", "U+DE24", "U+DE25", "U+DE26", "U+DE27", "U+DE28", "U+DE29", "U+DE2A",
      "U+DE2B", "U+DE2C", "U+DE2D", "U+DE2E", "U+DE2F", "U+DE30", "U+DE31", "U+DE32", "U+DE33",
      "U+DE34", "U+DE35", "U+DE36", "U+DE37", "U+DE38", "U+DE39", "U+DE3A", "U+DE3B", "U+DE3C",
      "U+DE3D", "U+DE3E", "U+DE3F", "U+DE40", "U+DE41", "U+DE42", "U+DE43", "U+DE44", "U+DE45",
      "U+DE46", "U+DE47", "U+DE48", "U+DE49", "U+DE4A", "U+DE4B", "U+DE4C", "U+DE4D", "U+DE4E",
      "U+DE4F", "U+DE50", "U+DE51", "U+DE52", "U+DE53", "U+DE54", "U+DE55", "U+DE56", "U+DE57",
      "U+DE58", "U+DE59", "U+DE5A", "U+DE5B", "U+DE5C", "U+DE5D", "U+DE5E", "U+DE5F", "U+DE60",
      "U+DE61", "U+DE62", "U+DE63", "U+DE64", "U+DE65", "U+DE66", "U+DE67", "U+DE68", "U+DE69",
      "U+DE6A", "U+DE6B", "U+DE6C", "U+DE6D", "U+DE6E", "U+DE6F", "U+DE70", "U+DE71", "U+DE72",
      "U+DE73", "U+DE74", "U+DE75", "U+DE76", "U+DE77", "U+DE78", "U+DE79", "U+DE7A", "U+DE7B",
      "U+DE7C", "U+DE7D", "U+DE7E", "U+DE7F", "U+DE80", "U+DE81", "U+DE82", "U+DE83", "U+DE84",
      "U+DE85", "U+DE86", "U+DE87", "U+DE88", "U+DE89", "U+DE8A", "U+DE8B", "U+DE8C", "U+DE8D",
      "U+DE8E", "U+DE8F", "U+DE90", "U+DE91", "U+DE92", "U+DE93", "U+DE94", "U+DE95", "U+DE96",
      "U+DE97", "U+DE98", "U+DE99", "U+DE9A", "U+DE9B", "U+DE9C", "U+DE9D", "U+DE9E", "U+DE9F",
      "U+DEA0", "U+DEA1", "U+DEA2", "U+DEA3", "U+DEA4", "U+DEA5", "U+DEA8", "U+DEA9", "U+DEAA",
      "U+DEAB", "U+DEAC", "U+DEAD", "U+DEAE", "U+DEAF", "U+DEB0", "U+DEB1", "U+DEB2", "U+DEB3",
      "U+DEB4", "U+DEB5", "U+DEB6", "U+DEB7", "U+DEB8", "U+DEB9", "U+DEBA", "U+DEBB", "U+DEBC",
      "U+DEBD", "U+DEBE", "U+DEBF", "U+DEC0", "U+DEC2", "U+DEC3", "U+DEC4", "U+DEC5", "U+DEC6",
      "U+DEC7", "U+DEC8", "U+DEC9", "U+DECA", "U+DECB", "U+DECC", "U+DECD", "U+DECE", "U+DECF",
      "U+DED0", "U+DED1", "U+DED2", "U+DED3", "U+DED4", "U+DED5", "U+DED6", "U+DED7", "U+DED8",
      "U+DED9", "U+DEDA", "U+DEDC", "U+DEDD", "U+DEDE", "U+DEDF", "U+DEE0", "U+DEE1", "U+DEE2",
      "U+DEE3", "U+DEE4", "U+DEE5", "U+DEE6", "U+DEE7", "U+DEE8", "U+DEE9", "U+DEEA", "U+DEEB",
      "U+DEEC", "U+DEED", "U+DEEE", "U+DEEF", "U+DEF0", "U+DEF1", "U+DEF2", "U+DEF3", "U+DEF4",
      "U+DEF5", "U+DEF6", "U+DEF7", "U+DEF8", "U+DEF9", "U+DEFA", "U+DEFC", "U+DEFD", "U+DEFE",
      "U+DEFF", "U+DF00", "U+DF01", "U+DF02", "U+DF03", "U+DF04", "U+DF05", "U+DF06", "U+DF07",
      "U+DF08", "U+DF09", "U+DF0A", "U+DF0B", "U+DF0C", "U+DF0D", "U+DF0E", "U+DF0F", "U+DF10",
      "U+DF11", "U+DF12", "U+DF13", "U+DF14", "U+DF16", "U+DF17", "U+DF18", "U+DF19", "U+DF1A",
      "U+DF1B", "U+DF1C", "U+DF1D", "U+DF1E", "U+DF1F", "U+DF20", "U+DF21", "U+DF22", "U+DF23",
      "U+DF24", "U+DF25", "U+DF26", "U+DF27", "U+DF28", "U+DF29", "U+DF2A", "U+DF2B", "U+DF2C",
      "U+DF2D", "U+DF2E", "U+DF2F", "U+DF30", "U+DF31", "U+DF32", "U+DF33", "U+DF34", "U+DF36",
      "U+DF37", "U+DF38", "U+DF39", "U+DF3A", "U+DF3B", "U+DF3C", "U+DF3D", "U+DF3E", "U+DF3F",
      "U+DF40", "U+DF41", "U+DF42", "U+DF43", "U+DF44", "U+DF45", "U+DF46", "U+DF47", "U+DF48",
      "U+DF49", "U+DF4A", "U+DF4B", "U+DF4C", "U+DF4D", "U+DF4E", "U+DF50", "U+DF51", "U+DF52",
      "U+DF53", "U+DF54", "U+DF55", "U+DF56", "U+DF57", "U+DF58", "U+DF59", "U+DF5A", "U+DF5B",
      "U+DF5C", "U+DF5D", "U+DF5E", "U+DF5F", "U+DF60", "U+DF61", "U+DF62", "U+DF63", "U+DF64",
      "U+DF65", "U+DF66", "U+DF67", "U+DF68", "U+DF69", "U+DF6A", "U+DF6B", "U+DF6C", "U+DF6D",
      "U+DF6E", "U+DF70", "U+DF71", "U+DF72", "U+DF73", "U+DF74", "U+DF75", "U+DF76", "U+DF77",
      "U+DF78", "U+DF79", "U+DF7A", "U+DF7B", "U+DF7C", "U+DF7D", "U+DF7E", "U+DF7F", "U+DF80",
      "U+DF81", "U+DF82", "U+DF83", "U+DF84", "U+DF85", "U+DF86", "U+DF87", "U+DF88", "U+DF8A",
      "U+DF8B", "U+DF8C", "U+DF8D", "U+DF8E", "U+DF8F", "U+DF90", "U+DF91", "U+DF92", "U+DF93",
      "U+DF94", "U+DF95", "U+DF96", "U+DF97", "U+DF98", "U+DF99", "U+DF9A", "U+DF9B", "U+DF9C",
      "U+DF9D", "U+DF9E", "U+DF9F", "U+DFA0", "U+DFA1", "U+DFA2", "U+DFA3", "U+DFA4", "U+DFA5",
      "U+DFA6", "U+DFA7", "U+DFA8", "U+DFAA", "U+DFAB", "U+DFAC", "U+DFAD", "U+DFAE", "U+DFAF",
      "U+DFB0", "U+DFB1", "U+DFB2", "U+DFB3", "U+DFB4", "U+DFB5", "U+DFB6", "U+DFB7", "U+DFB8",
      "U+DFB9", "U+DFBA", "U+DFBB", "U+DFBC", "U+DFBD", "U+DFBE", "U+DFBF", "U+DFC0", "U+DFC1",
      "U+DFC2", "U+DFC4", "U+DFC5", "U+DFC6", "U+DFC7", "U+DFC8", "U+DFC9", "U+DFCA", "U+DFCB"}}
    \cup
  {<<"U+D837", lo>> : lo \in
     {"U+DF00", "U+DF01", "U+DF02", "U+DF03", "U+DF04", "U+DF05", "U+DF06", "U+DF07", "U+DF08",
      "U+DF09", "U+DF0B", "U+DF0C", "U+DF0D", "U+DF0E", "U+DF0F", "U+DF10", "U+DF11", "U+DF12",
      "U+DF13", "U+DF14", "U+DF15", "U+DF16", "U+DF17", "U+DF18", "U+DF19", "U+DF1A", "U+DF1B",
      "U+DF1C", "U+DF1D", "U+DF1E", "U+DF25", "U+DF26", "U+DF27", "U+DF28", "U+DF29", "U+DF2A"}}
    \cup
  {<<"U+D83A", lo>> : lo \in
     {"U+DD00", "U+DD01", "U+DD02", "U+DD03", "U+DD04", "U+DD05", "U+DD06", "U+DD07", "U+DD08",
      "U+DD09", "U+DD0A", "U+DD0B", "U+DD0C", "U+DD0D", "U+DD0E", "U+DD0F", "U+DD10", "U+DD11",
      "U+DD12", "U+DD13", "U+DD14", "U+DD15", "U+DD16", "U+DD17", "U+DD18", "U+DD19", "U+DD1A",
      "U+DD1B", "U+DD1C", "U+DD1D", "U+DD1E", "U+DD1F", "U+DD20", "U+DD21", "U+DD22", "U+DD23",
      "U+DD24", "U+DD25", "U+DD26", "U+DD27", "U+DD28", "U+DD29", "U+DD2A", "U+DD2B", "U+DD2C",
      "U+DD2D", "U+DD2E", "U+DD2F", "U+DD30", "U+DD31", "U+DD32", "U+DD33", "U+DD34", "U+DD35",
      "U+DD36", "U+DD37", "U+DD38", "U+DD39", "U+DD3A", "U+DD3B", "U+DD3C", "U+DD3D", "U+DD3E",
      "U+DD3F", "U+DD40", "U+DD41", "U+DD42", "U+DD43"}}
    \cup
  {<<"U+D83C", lo>> : lo \in
     {"U+DD30", "U+DD31", "U+DD32", "U+DD33", "U+DD34", "U+DD35", "U+DD36", "U+DD37", "U+DD38",
      "U+DD39", "U+DD3A", "U+DD3B", "U+DD3C", "U+DD3D", "U+DD3E", "U+DD3F", "U+DD40", "U+DD41",
      "U+DD42", "U+DD43", "U+DD44", "U+DD45", "U+DD46", "U+DD47", "U+DD48", "U+DD49", "U+DD50",
      "U+DD51", "U+DD52", "U+DD53", "U+DD54", "U+DD55", "U+DD56", "U+DD57", "U+DD58", "U+DD59",
      "U+DD5A", "U+DD5B", "U+DD5C", "U+DD5D", "U+DD5E", "U+DD5F", "U+DD60", "U+DD61", "U+DD62",
      "U+DD63", "U+DD64", "U+DD65", "U+DD66", "U+DD67", "U+DD68", "U+DD69", "U+DD70", "U+DD71",
      "U+DD72", "U+DD73", "U+DD74", "U+DD75", "U+DD76", "U+DD77", "U+DD78", "U+DD79", "U+DD7A",
      "U+DD7B", "U+DD7C", "U+DD7D", "U+DD7E", "U+DD7F", "U+DD80", "U+DD81", "U+DD82", "U+DD83",
      "U+DD84", "U+DD85", "U+DD86", "U+DD87", "U+DD88", "U+DD89"}}

\* The case-ignorable characters (property Case_Ignorable).
CaseIgnorable ==
  {"'", ".", ":", "^", "U+0060", "¨", "­", "¯", "´", "·", "¸", "U+02B0", "U+02B1", "U+02B2",
   "U+02B3", "U+02B4", "U+02B5", "U+02B6", "U+02B7", "U+02B8", "U+02B9", "U+02BA", "U+02BB",
   "U+02BC", "U+02BD", "U+02BE", "U+02BF", "U+02C0", "U+02C1", "U+02C2", "U+02C3", "U+02C4",
   "U+02C5", "U+02C6", "U+02C7", "U+02C8", "U+02C9", "U+02CA", "U+02CB", "U+02CC", "U+02CD",
   "U+02CE", "U+02CF", "U+02D0", "U+02D1", "U+02D2", "U+02D3", "U+02D4", "U+02D5", "U+02D6",
   "U+02D7", "U+02D8", "U+02D9", "U+02DA", "U+02DB", "U+02DC", "U+02DD", "U+02DE", "U+02DF",
   "U+02E0", "U+02E1", "U+02E2", "U+02E3", "U+02E4", "U+02E5", "U+02E6", "U+02E7", "U+02E8",
   "U+02E9", "U+02EA", "U+02EB", "U+02EC", "U+02ED", "U+02EE", "U+02EF", "U+02F0", "U+02F1",
   "U+02F2", "U+02F3", "U+02F4", "U+02F5", "U+02F6", "U+02F7", "U+02F8", "U+02F9", "U+02FA",
   "U+02FB", "U+02FC", "U+02FD", "U+02FE", "U+02FF", "U+0300", "U+0301", "U+0302", "U+0303",
   "U+0304", "U+0305", "U+0306", "U+0307", "U+0308", "U+0309", "U+030A", "U+030B", "U+030C",
   "U+030D", "U+030E", "U+030F", "U+0310", "U+0311", "U+0312", "U+0313", "U+0314", "U+0315",
   "U+0316", "U+0317", "U+0318", "U+0319", "U+031A", "U+031B", "U+031C", "U+031D", "U+031E",
   "U+031F", "U+0320", "U+0321", "U+0322", "U+0323", "U+0324", "U+0325", "U+0326", "U+0327",
   "U+0328", "U+0329", "U+032A", "U+032B", "U+032C", "U+032D", "U+032E", "U+032F", "U+0330",
   "U+0331", "U+0332", "U+0333", "U+0334", "U+0335", "U+0336", "U+0337", "U+0338", "U+0339",
   "U+033A", "U+033B", "U+033C", "U+033D", "U+033E", "U+033F", "U+0340", "U+0341", "U+0342",
   "U+0343", "U+0344", "U+0345", "U+0346", "U+0347", "U+0348", "U+0349", "U+034A", "U+034B",
   "U+034C", "U+034D", "U+034E", "U+034F", "U+0350", "U+0351", "U+0352", "U+0353", "U+0354",
   "U+0355", "U+0356", "U+0357", "U+0358", "U+0359", "U+035A", "U+035B", "U+035C", "U+035D",
   "U+035E", "U+035F", "U+0360", "U+0361", "U+0362", "U+0363", "U+0364", "U+0365", "U+0366",
   "U+0367", "U+0368", "U+0369", "U+036A", "U+036B", "U+036C", "U+036D", "U+036E", "U+036F",
   "U+0374", "U+0375", "U+037A", "U+0384", "U+0385", "U+0387", "U+0483", "U+0484", "U+0485",
   "U+0486", "U+0487", "U+0488", "U+0489", "U+0559", "U+055F", "U+0591", "U+0592", "U+0593",
   "U+0594", "U+0595", "U+0596", "U+0597", "U+0598", "U+0599", "U+059A", "U+059B", "U+059C",
   "U+059D", "U+059E", "U+059F", "U+05A0", "U+05A1", "U+05A2", "U+05A3", "U+05A4", "U+05A5",
   "U+05A6", "U+05A7", "U+05A8", "U+05A9", "U+05AA", "U+05AB", "U+05AC", "U+05AD", "U+05AE",
   "U+05AF", "U+05B0", "U+05B1", "U+05B2", "U+05B3", "U+05B4", "U+05B5", "U+05B6", "U+05B7",
   "U+05B8", "U+05B9", "U+05BA", "U+05BB", "U+05BC", "U+05BD", "U+05BF", "U+05C1", "U+05C2",
   "U+05C4", "U+05C5", "U+05C7", "U+05F4", "U+0600", "U+0601", "U+0602", "U+0603", "U+0604",
   "U+0605", "U+0610", "U+0611", "U+0612", "U+0613", "U+0614", "U+0615", "U+0616", "U+0617",
   "U+0618", "U+0619", "U+061A", "U+061C", "U+0640", "U+064B", "U+064C", "U+064D", "U+064E",
   "U+064F", "U+0650", "U+0651", "U+0652", "U+0653", "U+0654", "U+0655", "U+0656", "U+0657",
   "U+0658", "U+0659", "U+065A", "U+065B", "U+065C", "U+065D", "U+065E", "U+065F", "U+0670",
   "U+06D6", "U+06D7", "U+06D8", "U+06D9", "U+06DA", "U+06DB", "U+06DC", "U+06DD", "U+06DF",
   "U+06E0", "U+06E1", "U+06E2", "U+06E3", "U+06E4", "U+06E5", "U+06E6", "U+06E7", "U+06E8",
   "U+06EA", "U+06EB", "U+06EC", "U+06ED", "U+070F", "U+0711", "U+0730", "U+0731", "U+0732",
   "U+0733", "U+0734", "U+0735", "U+0736", "U+0737", "U+0738", "U+0739", "U+073A", "U+073B",
   "U+073C", "U+073D", "U+073E", "U+073F", "U+0740", "U+0741", "U+0742", "U+0743", "U+0744",
   "U+0745", "U+0746", "U+0747", "U+0748", "U+0749", "U+074A", "U+07A6", "U+07A7", "U+07A8",
   "U+07A9", "U+07AA", "U+07AB", "U+07AC", "U+07AD", "U+07AE", "U+07AF", "U+07B0", "U+07EB",
   "U+07EC", "U+07ED", "U+07EE", "U+07EF", "U+07F0", "U+07F1", "U+07F2", "U+07F3", "U+07F4",
   "U+07F5", "U+07FA", "U+07FD", "U+0816", "U+0817", "U+0818", "U+0819", "U+081A", "U+081B",
   "U+081C", "U+081D", "U+081E", "U+081F", "U+0820", "U+0821", "U+0822", "U+0823", "U+0824",
   "U+0825", "U+0826", "U+0827", "U+0828", "U+0829", "U+082A", "U+082B", "U+082C", "U+082D",
   "U+0859", "U+085A", "U+085B", "U+0888", "U+0890", "U+0891", "U+0897", "U+0898", "U+0899",
   "U+089A", "U+089B", "U+089C", "U+089D", "U+089E", "U+089F", "U+08C9", "U+08CA", "U+08CB",
   "U+08CC", "U+08CD", "U+08CE", "U+08CF", "U+08D0", "U+08D1", "U+08D2", "U+08D3", "U+08D4",
   "U+08D5", "U+08D6", "U+08D7", "U+08D8", "U+08D9", "U+08DA", "U+08DB", "U+08DC", "U+08DD",
   "U+08DE", "U+08DF", "U+08E0", "U+08E1", "U+08E2", "U+08E3", "U+08E4", "U+08E5", "U+08E6",
   "U+08E7", "U+08E8", "U+08E9", "U+08EA", "U+08EB", "U+08EC", "U+08ED", "U+08EE", "U+08EF",
   "U+08F0", "U+08F1", "U+08F2", "U+08F3", "U+08F4", "U+08F5", "U+08F6", "U+08F7", "U+08F8",
   "U+08F9", "U+08FA", "U+08FB", "U+08FC", "U+08FD", "U+08FE", "U+08FF", "U+0900", "U+0901",
   "U+0902", "U+093A", "U+093C", "U+0941", "U+0942", "U+0943", "U+0944", "U+0945", "U+0946",
   "U+0947", "U+0948", "U+094D", "U+0951", "U+0952", "U+0953", "U+0954", "U+0955", "U+0956",
   "U+0957", "U+0962", "U+0963", "U+0971", "U+0981", "U+09BC", "U+09C1", "U+09C2", "U+09C3",
   "U+09C4", "U+09CD", "U+09E2", "U+09E3", "U+09FE", "U+0A01", "U+0A02", "U+0A3C", "U+0A41",
   "U+0A42", "U+0A47", "U+0A48", "U+0A4B", "U+0A4C", "U+0A4D", "U+0A51", "U+0A70", "U+0A71",
   "U+0A75", "U+0A81", "U+0A82", "U+0ABC", "U+0AC1", "U+0AC2", "U+0AC3", "U+0AC4", "U+0AC5",
   "U+0AC7", "U+0AC8", "U+0ACD", "U+0AE2", "U+0AE3", "U+0AFA", "U+0AFB", "U+0AFC", "U+0AFD",
   "U+0AFE", "U+0AFF", "U+0B01", "U+0B3C", "U+0B3F", "U+0B41", "U+0B42", "U+0B43", "U+0B44",
   "U+0B4D", "U+0B55", "U+0B56", "U+0B62", "U+0B63", "U+0B82", "U+0BC0", "U+0BCD", "U+0C00",
   "U+0C04", "U+0C3C", "U+0C3E", "U+0C3F", "U+0C40", "U+0C46", "U+0C47", "U+0C48", "U+0C4A",
   "U+0C4B", "U+0C4C", "U+0C4D", "U+0C55", "U+0C56", "U+0C62", "U+0C63", "U+0C81", "U+0CBC",
   "U+0CBF", "U+0CC6", "U+0CCC", "U+0CCD", "U+0CE2", "U+0CE3", "U+0D00", "U+0D01", "U+0D3B",
   "U+0D3C", "U+0D41", "U+0D42", "U+0D43", "U+0D44", "U+0D4D", "U+0D62", "U+0D63", "U+0D81",
   "U+0DCA", "U+0DD2", "U+0DD3", "U+0DD4", "U+0DD6", "U+0E31", "U+0E34", "U+0E35", "U+0E36",
   "U+0E37", "U+0E38", "U+0E39", "U+0E3A", "U+0E46", "U+0E47", "U+0E48", "U+0E49", "U+0E4A",
   "U+0E4B", "U+0E4C", "U+0E4D", "U+0E4E", "U+0EB1", "U+0EB4", "U+0EB5", "U+0EB6", "U+0EB7",
   "U+0EB8", "U+0EB9", "U+0EBA", "U+0EBB", "U+0EBC", "U+0EC6", "U+0EC8", "U+0EC9", "U+0ECA",
   "U+0ECB", "U+0ECC", "U+0ECD", "U+0ECE", "U+0F18", "U+0F19", "U+0F35", "U+0F37", "U+0F39",
   "U+0F71", "U+0F72", "U+0F73", "U+0F74", "U+0F75", "U+0F76", "U+0F77", "U+0F78", "U+0F79",
   "U+0F7A", "U+0F7B", "U+0F7C", "U+0F7D", "U+0F7E", "U+0F80", "U+0F81", "U+0F82", "U+0F83",
   "U+0F84", "U+0F86", "U+0F87", "U+0F8D", "U+0F8E", "U+0F8F", "U+0F90", "U+0F91", "U+0F92",
   "U+0F93", "U+0F94", "U+0F95", "U+0F96", "U+0F97", "U+0F99", "U+0F9A", "U+0F9B", "U+0F9C",
   "U+0F9D", "U+0F9E", "U+0F9F", "U+0FA0", "U+0FA1", "U+0FA2", "U+0FA3", "U+0FA4", "U+0FA5",
   "U+0FA6", "U+0FA7", "U+0FA8", "U+0FA9", "U+0FAA", "U+0FAB", "U+0FAC", "U+0FAD", "U+0FAE",
   "U+0FAF", "U+0FB0", "U+0FB1", "U+0FB2", "U+0FB3", "U+0FB4", "U+0FB5", "U+0FB6", "U+0FB7",
   "U+0FB8", "U+0FB9", "U+0FBA", "U+0FBB", "U+0FBC", "U+0FC6", "U+102D", "U+102E", "U+102F",
   "U+1030", "U+1032", "U+1033", "U+1034", "U+1035", "U+1036", "U+1037", "U+1039", "U+103A",
   "U+103D", "U+103E", "U+1058", "U+1059", "U+105E", "U+105F", "U+1060", "U+1071", "U+1072",
   "U+1073", "U+1074", "U+1082", "U+1085", "U+1086", "U+108D", "U+109D", "U+10FC", "U+135D",
   "U+135E", "U+135F", "U+1712", "U+1713", "U+1714", "U+1732", "U+1733", "U+1752", "U+1753",
   "U+1772", "U+1773", "U+17B4", "U+17B5", "U+17B7", "U+17B8", "U+17B9", "U+17BA", "U+17BB",
   "U+17BC", "U+17BD", "U+17C6", "U+17C9", "U+17CA", "U+17CB", "U+17CC", "U+17CD", "U+17CE",
   "U+17CF", "U+17D0", "U+17D1", "U+17D2", "U+17D3", "U+17D7", "U+17DD", "U+180B", "U+180C",
   "U+180D", "U+180E", "U+180F", "U+1843", "U+1885", "U+1886", "U+18A9", "U+1920", "U+1921",
   "U+1922", "U+1927", "U+1928", "U+1932", "U+1939", "U+193A", "U+193B", "U+1A17", "U+1A18",
   "U+1A1B", "U+1A56", "U+1A58", "U+1A59", "U+1A5A", "U+1A5B", "U+1A5C", "U+1A5D", "U+1A5E",
   "U+1A60", "U+1A62", "U+1A65", "U+1A66", "U+1A67", "U+1A68", "U+1A69", "U+1A6A", "U+1A6B",
   "U+1A6C", "U+1A73", "U+1A74", "U+1A75", "U+1A76", "U+1A77", "U+1A78", "U+1A79", "U+1A7A",
   "U+1A7B", "U+1A7C", "U+1A7F", "U+1AA7", "U+1AB0", "U+1AB1", "U+1AB2", "U+1AB3", "U+1AB4",
   "U+1AB5", "U+1AB6", "U+1AB7", "U+1AB8", "U+1AB9", "U+1ABA", "U+1ABB", "U+1ABC", "U+1ABD",
   "U+1ABE", "U+1ABF", "U+1AC0", "U+1AC1", "U+1AC2", "U+1AC3", "U+1AC4", "U+1AC5", "U+1AC6",
   "U+1AC7", "U+1AC8", "U+1AC9", "U+1ACA", "U+1ACB", "U+1ACC", "U+1ACD", "U+1ACE", "U+1ACF",
   "U+1AD0", "U+1AD1", "U+1AD2", "U+1AD3", "U+1AD4", "U+1AD5", "U+1AD6", "U+1AD7", "U+1AD8",
   "U+1AD9", "U+1ADA", "U+1ADB", "U+1ADC", "U+1ADD", "U+1AE0", "U+1AE1", "U+1AE2", "U+1AE3",
   "U+1AE4", "U+1AE5", "U+1AE6", "U+1AE7", "U+1AE8", "U+1AE9", "U+1AEA", "U+1AEB", "U+1B00",
   "U+1B01", "U+1B02", "U+1B03", "U+1B34", "U+1B36", "U+1B37", "U+1B38", "U+1B39", "U+1B3A",
   "U+1B3C", "U+1B42", "U+1B6B", "U+1B6C", "U+1B6D", "U+1B6E", "U+1B6F", "U+1B70", "U+1B71",
   "U+1B72", "U+1B73", "U+1B80", "U+1B81", "U+1BA2", "U+1BA3", "U+1BA4", "U+1BA5", "U+1BA8",
   "U+1BA9", "U+1BAB", "U+1BAC", "U+1BAD", "U+1BE6", "U+1BE8", "U+1BE9", "U+1BED", "U+1BEF",
   "U+1BF0", "U+1BF1", "U+1C2C", "U+1C2D", "U+1C2E", "U+1C2F", "U+1C30", "U+1C31", "U+1C32",
   "U+1C33", "U+1C36", "U+1C37", "U+1C78", "U+1C79", "U+1C7A", "U+1C7B", "U+1C7C", "U+1C7D",
   "U+1CD0", "U+1CD1", "U+1CD2", "U+1CD4", "U+1CD5", "U+1CD6", "U+1CD7", "U+1CD8", "U+1CD9",
   "U+1CDA", "U+1CDB", "U+1CDC", "U+1CDD", "U+1CDE", "U+1CDF", "U+1CE0", "U+1CE2", "U+1CE3",
   "U+1CE4", "U+1CE5", "U+1CE6", "U+1CE7", "U+1CE8", "U+1CED", "U+1CF4", "U+1CF8", "U+1CF9",
   "U+1D2C", "U+1D2D", "U+1D2E", "U+1D2F", "U+1D30", "U+1D31", "U+1D32", "U+1D33", "U+1D34",
   "U+1D35", "U+1D36", "U+1D37", "U+1D38", "U+1D39", "U+1D3A", "U+1D3B", "U+1D3C", "U+1D3D",
   "U+1D3E", "U+1D3F", "U+1D40", "U+1D41", "U+1D42", "U+1D43", "U+1D44", "U+1D45", "U+1D46",
   "U+1D47", "U+1D48", "U+1D49", "U+1D4A", "U+1D4B", "U+1D4C", "U+1D4D", "U+1D4E", "U+1D4F",
   "U+1D50", "U+1D51", "U+1D52", "U+1D53", "U+1D54", "U+1D55", "U+1D56", "U+1D57", "U+1D58",
   "U+1D59", "U+1D5A", "U+1D5B", "U+1D5C", "U+1D5D", "U+1D5E", "U+1D5F", "U+1D60", "U+1D61",
   "U+1D62", "U+1D63", "U+1D64", "U+1D65", "U+1D66", "U+1D67", "U+1D68", "U+1D69", "U+1D6A",
   "U+1D78", "U+1D9B", "U+1D9C", "U+1D9D", "U+1D9E", "U+1D9F", "U+1DA0", "U+1DA1", "U+1DA2",
   "U+1DA3", "U+1DA4", "U+1DA5", "U+1DA6", "U+1DA7", "U+1DA8", "U+1DA9", "U+1DAA", "U+1DAB",
   "U+1DAC", "U+1DAD", "U+1DAE", "U+1DAF", "U+1DB0", "U+1DB1", "U+1DB2", "U+1DB3", "U+1DB4",
   "U+1DB5", "U+1DB6", "U+1DB7", "U+1DB8", "U+1DB9", "U+1DBA", "U+1DBB", "U+1DBC", "U+1DBD",
   "U+1DBE", "U+1DBF", "U+1DC0", "U+1DC1", "U+1DC2", "U+1DC3", "U+1DC4", "U+1DC5", "U+1DC6",
   "U+1DC7", "U+1DC8", "U+1DC9", "U+1DCA", "U+1DCB", "U+1DCC", "U+1DCD", "U+1DCE", "U+1DCF",
   "U+1DD0", "U+1DD1", "U+1DD2", "U+1DD3", "U+1DD4", "U+1DD5", "U+1DD6", "U+1DD7", "U+1DD8",
   "U+1DD9", "U+1DDA", "U+1DDB", "U+1DDC", "U+1DDD", "U+1DDE", "U+1DDF", "U+1DE0", "U+1DE1",
   "U+1DE2", "U+1DE3", "U+1DE4", "U+1DE5", "U+1DE6", "U+1DE7", "U+1DE8", "U+1DE9", "U+1DEA",
   "U+1DEB", "U+1DEC", "U+1DED", "U+1DEE", "U+1DEF", "U+1DF0", "U+1DF1", "U+1DF2", "U+1DF3",
   "U+1DF4", "U+1DF5", "U+1DF6", "U+1DF7", "U+1DF8", "U+1DF9", "U+1DFA", "U+1DFB", "U+1DFC",
   "U+1DFD", "U+1DFE", "U+1DFF", "U+1FBD", "U+1FBF", "U+1FC0", "U+1FC1", "U+1FCD", "U+1FCE",
   "U+1FCF", "U+1FDD", "U+1FDE", "U+1FDF", "U+1FED", "U+1FEE", "U+1FEF", "U+1FFD", "U+1FFE",
   "U+200B", "U+200C", "U+200D", "U+200E", "U+200F", "U+2018", "U+2019", "U+2024", "U+2027",
   "U+202A", "U+202B", "U+202C", "U+202D", "U+202E", "U+2060", "U+2061", "U+2062", "U+2063",
   "U+2064", "U+2066", "U+2067", "U+2068", "U+2069", "U+206A", "U+206B", "U+206C", "U+206D",
   "U+206E", "U+206F", "U+2071", "U+207F", "U+2090", "U+2091", "U+2092", "U+2093", "U+2094",
   "U+2095", "U+2096", "U+2097", "U+2098", "U+2099", "U+209A", "U+209B", "U+209C", "U+20D0",
   "U+20D1", "U+20D2", "U+20D3", "U+20D4", "U+20D5", "U+20D6", "U+20D7", "U+20D8", "U+20D9",
   "U+20DA", "U+20DB", "U+20DC", "U+20DD", "U+20DE", "U+20DF", "U+20E0", "U+20E1", "U+20E2",
   "U+20E3", "U+20E4", "U+20E5", "U+20E6", "U+20E7", "U+20E8", "U+20E9", "U+20EA", "U+20EB",
   "U+20EC", "U+20ED", "U+20EE", "U+20EF", "U+20F0", "U+2C7C", "U+2C7D", "U+2CEF", "U+2CF0",
   "U+2CF1", "U+2D6F", "U+2D7F", "U+2DE0", "U+2DE1", "U+2DE2", "U+2DE3", "U+2DE4", "U+2DE5",
   "U+2DE6", "U+2DE7", "U+2DE8", "U+2DE9", "U+2DEA", "U+2DEB", "U+2DEC", "U+2DED", "U+2DEE",
   "U+2DEF", "U+2DF0", "U+2DF1", "U+2DF2", "U+2DF3", "U+2DF4", "U+2DF5", "U+2DF6", "U+2DF7",
   "U+2DF8", "U+2DF9", "U+2DFA", "U+2DFB", "U+2DFC", "U+2DFD", "U+2DFE", "U+2DFF", "U+2E2F",
   "U+3005", "U+302A", "U+302B", "U+302C", "U+302D", "U+3031", "U+3032", "U+3033", "U+3034",
   "U+3035", "U+303B", "U+3099", "U+309A", "U+309B", "U+309C", "U+309D", "U+309E", "U+30FC",
   "U+30FD", "U+30FE", "U+A015", "U+A4F8", "U+A4F9", "U+A4FA", "U+A4FB", "U+A4FC", "U+A4FD",
   "U+A60C", "U+A66F", "U+A670", "U+A671", "U+A672", "U+A674", "U+A675", "U+A676", "U+A677",
   "U+A678", "U+A679", "U+A67A", "U+A67B", "U+A67C", "U+A67D", "U+A67F", "U+A69C", "U+A69D",
   "U+A69E", "U+A69F", "U+A6F0", "U+A6F1", "U+A700", "U+A701", "U+A702", "U+A703", "U+A704",
   "U+A705", "U+A706", "U+A707", "U+A708", "U+A709", "U+A70A", "U+A70B", "U+A70C", "U+A70D",
   "U+A70E", "U+A70F", "U+A710", "U+A711", "U+A712", "U+A713", "U+A714", "U+A715", "U+A716",
   "U+A717", "U+A718", "U+A719", "U+A71A", "U+A71B", "U+A71C", "U+A71D", "U+A71E", "U+A71F",
   "U+A720", "U+A721", "U+A770", "U+A788", "U+A789", "U+A78A", "U+A7F1", "U+A7F2", "U+A7F3",
   "U+A7F4", "U+A7F8", "U+A7F9", "U+A802", "U+A806", "U+A80B", "U+A825", "U+A826", "U+A82C",
   "U+A8C4", "U+A8C5", "U+A8E0", "U+A8E1", "U+A8E2", "U+A8E3", "U+A8E4", "U+A8E5", "U+A8E6",
   "U+A8E7", "U+A8E8", "U+A8E9", "U+A8EA", "U+A8EB", "U+A8EC", "U+A8ED", "U+A8EE", "U+A8EF",
   "U+A8F0", "U+A8F1", "U+A8FF", "U+A926", "U+A927", "U+A928", "U+A929", "U+A92A", "U+A92B",
   "U+A92C", "U+A92D", "U+A947", "U+A948", "U+A949", "U+A94A", "U+A94B", "U+A94C", "U+A94D",
   "U+A94E", "U+A94F", "U+A950", "U+A951", "U+A980", "U+A981", "U+A982", "U+A9B3", "U+A9B6",
   "U+A9B7", "U+A9B8", "U+A9B9", "U+A9BC", "U+A9BD", "U+A9CF", "U+A9E5", "U+A9E6", "U+AA29",
   "U+AA2A", "U+AA2B", "U+AA2C", "U+AA2D", "U+AA2E", "U+AA31", "U+AA32", "U+AA35", "U+AA36",
   "U+AA43", "U+AA4C", "U+AA70", "U+AA7C", "U+AAB0", "U+AAB2", "U+AAB3", "U+AAB4", "U+AAB7",
   "U+AAB8", "U+AABE", "U+AABF", "U+AAC1", "U+AADD", "U+AAEC", "U+AAED", "U+AAF3", "U+AAF4",
   "U+AAF6", "U+AB5B", "U+AB5C", "U+AB5D", "U+AB5E", "U+AB5F", "U+AB69", "U+AB6A", "U+AB6B",
   "U+ABE5", "U+ABE8", "U+ABED", "U+FB1E", "U+FBB2", "U+FBB3", "U+FBB4", "U+FBB5", "U+FBB6",
   "U+FBB7", "U+FBB8", "U+FBB9", "U+FBBA", "U+FBBB", "U+FBBC", "U+FBBD", "U+FBBE", "U+FBBF",
   "U+FBC0", "U+FBC1", "U+FBC2", "U+FE00", "U+FE01", "U+FE02", "U+FE03", "U+FE04", "U+FE05",
   "U+FE06", "U+FE07", "U+FE08", "U+FE09", "U+FE0A", "U+FE0B", "U+FE0C", "U+FE0D", "U+FE0E",
   "U+FE0F", "U+FE13", "U+FE20", "U+FE21", "U+FE22", "U+FE23", "U+FE24", "U+FE25", "U+FE26",
   "U+FE27", "U+FE28", "U+FE29", "U+FE2A", "U+FE2B", "U+FE2C", "U+FE2D", "U+FE2E", "U+FE2F",
   "U+FE52", "U+FE55", "U+FEFF", "U+FF07", "U+FF0E", "U+FF1A", "U+FF3E", "U+FF40", "U+FF70",
   "U+FF9E", "U+FF9F", "U+FFE3", "U+FFF9", "U+FFFA", "U+FFFB"}

CaseIgnorablePairs ==
  {<<"U+D800", lo>> : lo \in
     {"U+DDFD", "U+DEE0", "U+DF76", "U+DF77", "U+DF78", "U+DF79", "U+DF7A"}}
    \cup
  {<<"U+D801", lo>> : lo \in
     {"U+DF80", "U+DF81", "U+DF82", "U+DF83", "U+DF84", "U+DF85", "U+DF87", "U+DF88", "U+DF89",
      "U+DF8A", "U+DF8B", "U+DF8C", "U+DF8D", "U+DF8E", "U+DF8F", "U+DF90", "U+DF91", "U+DF92",
      "U+DF93", "U+DF94", "U+DF95", "U+DF96", "U+DF97", "U+DF98", "U+DF99", "U+DF9A", "U+DF9B",
      "U+DF9C", "U+DF9D", "U+DF9E", "U+DF9F", "U+DFA0", "U+DFA1", "U+DFA2", "U+DFA3", "U+DFA4",
      "U+DFA5", "U+DFA6", "U+DFA7", "U+DFA8", "U+DFA9", "U+DFAA", "U+DFAB", "U+DFAC", "U+DFAD",
      "U+DFAE", "U+DFAF", "U+DFB0", "U+DFB2", "U+DFB3", "U+DFB4", "U+DFB5", "U+DFB6", "U+DFB7",
      "U+DFB8", "U+DFB9", "U+DFBA"}}
    \cup
  {<<"U+D802", lo>> : lo \in
     {"U+DE01", "U+DE02", "U+DE03", "U+DE05", "U+DE06", "U+DE0C", "U+DE0D", "U+DE0E", "U+DE0F",
      "U+DE38", "U+DE39", "U+DE3A", "U+DE3F", "U+DEE5", "U+DEE6"}}
    \cup
  {<<"U+D803", lo>> : lo \in
     {"U+DD24", "U+DD25", "U+DD26", "U+DD27", "U+DD4E", "U+DD69", "U+DD6A", "U+DD6B", "U+DD6C",
      "U+DD6D", "U+DD6F", "U+DEAB", "U+DEAC", "U+DEC5", "U+DEFA", "U+DEFB", "U+DEFC", "U+DEFD",
      "U+DEFE", "U+DEFF", "U+DF46", "U+DF47", "U+DF48", "U+DF49", "U+DF4A", "U+DF4B", "U+DF4C",
      "U+DF4D", "U+DF4E", "U+DF4F", "U+DF50", "U+DF82", "U+DF83", "U+DF84", "U+DF85"}}
    \cup
  {<<"U+D804", lo>> : lo \in
     {"U+DC01", "U+DC38", "U+DC39", "U+DC3A", "U+DC3B", "U+DC3C", "U+DC3D", "U+DC3E", "U+DC3F",
      "U+DC40", "U+DC41", "U+DC42", "U+DC43", "U+DC44", "U+DC45", "U+DC46", "U+DC70", "U+DC73",
      "U+DC74", "U+DC7F", "U+DC80", "U+DC81", "U+DCB3", "U+DCB4", "U+DCB5", "U+DCB6", "U+DCB9",
      "U+DCBA", "U+DCBD", "U+DCC2", "U+DCCD", "U+DD00", "U+DD01", "U+DD02", "U+DD27", "U+DD28",
      "U+DD29", "U+DD2A", "U+DD2B", "U+DD2D", "U+DD2E", "U+DD2F", "U+DD30", "U+DD31", "U+DD32",
      "U+DD33", "U+DD34", "U+DD73", "U+DD80", "U+DD81", "U+DDB6", "U+DDB7", "U+DDB8", "U+DDB9",
      "U+DDBA", "U+DDBB", "U+DDBC", "U+DDBD", "U+DDBE", "U+DDC9", "U+DDCA", "U+DDCB", "U+DDCC",
      "U+DDCF", "U+DE2F", "U+DE30", "U+DE31", "U+DE34", "U+DE36", "U+DE37", "U+DE3E", "U+DE41",
      "U+DEDF", "U+DEE3", "U+DEE4", "U+DEE5", "U+DEE6", "U+DEE7", "U+DEE8", "U+DEE9", "U+DEEA",
      "U+DF00", "U+DF01", "U+DF3B", "U+DF3C", "U+DF40", "U+DF66", "U+DF67", "U+DF68", "U+DF69",
      "U+DF6A", "U+DF6B", "U+DF6C", "U+DF70", "U+DF71", "U+DF72", "U+DF73", "U+DF74", "U+DFBB",
      "U+DFBC", "U+DFBD", "U+DFBE", "U+DFBF", "U+DFC0", "U+DFCE", "U+DFD0", "U+DFD2", "U+DFE1",
      "U+DFE2"}}
    \cup
  {<<"U+D805", lo>> : lo \in
     {"U+DC38", "U+DC39", "U+DC3A", "U+DC3B", "U+DC3C", "U+DC3D", "U+DC3E", "U+DC3F", "U+DC42",
      "U+DC43", "U+DC44", "U+DC46", "U+DC5E", "U+DCB3", "U+DCB4", "U+DCB5", "U+DCB6", "U+DCB7",
      "U+DCB8", "U+DCBA", "U+DCBF", "U+DCC0", "U+DCC2", "U+DCC3", "U+DDB2", "U+DDB3", "U+DDB4",
      "U+DDB5", "U+DDBC", "U+DDBD", "U+DDBF", "U+DDC0", "U+DDDC", "U+DDDD", "U+DE33", "U+DE34",
      "U+DE35", "U+DE36", "U+DE37", "U+DE38", "U+DE39", "U+DE3A", "U+DE3D", "U+DE3F", "U+DE40",
      "U+DEAB", "U+DEAD", "U+DEB0", "U+DEB1", "U+DEB2", "U+DEB3", "U+DEB4", "U+DEB5", "U+DEB7",
      "U+DF1D", "U+DF1F", "U+DF22", "U+DF23", "U+DF24", "U+DF25", "U+DF27", "U+DF28", "U+DF29",
      "U+DF2A", "U+DF2B"}}
    \cup
  {<<"U+D806", lo>> : lo \in
     {"U+DC2F", "U+DC30", "U+DC31", "U+DC32", "U+DC33", "U+DC34", "U+DC35", "U+DC36", "U+DC37",
      "U+DC39", "U+DC3A", "U+DD3B", "U+DD3C", "U+DD3E", "U+DD43", "U+DDD4", "U+DDD5", "U+DDD6",
      "U+DDD7", "U+DDDA", "U+DDDB", "U+DDE0", "U+DE01", "U+DE02", "U+DE03", "U+DE04", "U+DE05",
      "U+DE06", "U+DE07", "U+DE08", "U+DE09", "U+DE0A", "U+DE33", "U+DE34", "U+DE35", "U+DE36",
      "U+DE37", "U+DE38", "U+DE3B", "U+DE3C", "U+DE3D", "U+DE3E", "U+DE47", "U+DE51", "U+DE52",
      "U+DE53", "U+DE54", "U+DE55", "U+DE56", "U+DE59", "U+DE5A", "U+DE5B", "U+DE8A", "U+DE8B",
      "U+DE8C", "U+DE8D", "U+DE8E", "U+DE8F", "U+DE90", "U+DE91", "U+DE92", "U+DE93", "U+DE94",
      "U+DE95", "U+DE96", "U+DE98", "U+DE99", "U+DF60", "U+DF62", "U+DF63", "U+DF64", "U+DF66"}}
    \cup
  {<<"U+D807", lo>> : lo \in
     {"U+DC30", "U+DC31", "U+DC32", "U+DC33", "U+DC34", "U+DC35", "U+DC36", "U+DC38", "U+DC39",
      "U+DC3A", "U+DC3B", "U+DC3C", "U+DC3D", "U+DC3F", "U+DC92", "U+DC93", "U+DC94", "U+DC95",
      "U+DC96", "U+DC97", "U+DC98", "U+DC99", "U+DC9A", "U+DC9B", "U+DC9C", "U+DC9D", "U+DC9E",
      "U+DC9F", "U+DCA0", "U+DCA1", "U+DCA2", "U+DCA3", "U+DCA4", "U+DCA5", "U+DCA6", "U+DCA7",
      "U+DCAA", "U+DCAB", "U+DCAC", "U+DCAD", "U+DCAE", "U+DCAF", "U+DCB0", "U+DCB2", "U+DCB3",
      "U+DCB5", "U+DCB6", "U+DD31", "U+DD32", "U+DD33", "U+DD34", "U+DD35", "U+DD36", "U+DD3A",
      "U+DD3C", "U+DD3D", "U+DD3F", "U+DD40", "U+DD41", "U+DD42", "U+DD43", "U+DD44", "U+DD45",
      "U+DD47", "U+DD90", "U+DD91", "U+DD95", "U+DD97", "U+DDD9", "U+DEF3", "U+DEF4", "U+DF00",
      "U+DF01", "U+DF36", "U+DF37", "U+DF38", "U+DF39", "U+DF3A", "U+DF40", "U+DF42", "U+DF5A"}}
    \cup
  {<<"U+D80D", lo>> : lo \in
     {"U+DC30", "U+DC31", "U+DC32", "U+DC33", "U+DC34", "U+DC35", "U+DC36", "U+DC37", "U+DC38",
      "U+DC39", "U+DC3A", "U+DC3B", "U+DC3C", "U+DC3D", "U+DC3E", "U+DC3F", "U+DC40", "U+DC47",
      "U+DC48", "U+DC49", "U+DC4A", "U+DC4B", "U+DC4C", "U+DC4D", "U+DC4E", "U+DC4F", "U+DC50",
      "U+DC51", "U+DC52", "U+DC53", "U+DC54", "U+DC55"}}
    \cup
  {<<"U+D818", lo>> : lo \in
     {"U+DD1E", "U+DD1F", "U+DD20", "U+DD21", "U+DD22", "U+DD23", "U+DD24", "U+DD25", "U+DD26",
      "U+DD27", "U+DD28", "U+DD29", "U+DD2D", "U+DD2E", "U+DD2F"}}
    \cup
  {<<"U+D81A", lo>> : lo \in
     {"U+DEF0", "U+DEF1", "U+DEF2", "U+DEF3", "U+DEF4", "U+DF30", "U+DF31", "U+DF32", "U+DF33",
      "U+DF34", "U+DF35", "U+DF36", "U+DF40", "U+DF41", "U+DF42", "U+DF43"}}
    \cup
  {<<"U+D81B", lo>> : lo \in
     {"U+DD40", "U+DD41", "U+DD42", "U+DD6B", "U+DD6C", "U+DF4F", "U+DF8F", "U+DF90", "U+DF91",
      "U+DF92", "U+DF93", "U+DF94", "U+DF95", "U+DF96", "U+DF97", "U+DF98", "U+DF99", "U+DF9A",
      "U+DF9B", "U+DF9C", "U+DF9D", "U+DF9E", "U+DF9F", "U+DFE0", "U+DFE1", "U+DFE3", "U+DFE4",
      "U+DFF2", "U+DFF3"}}
    \cup
  {<<"U+D82B", lo>> : lo \in
     {"U+DFF0", "U+DFF1", "U+DFF2", "U+DFF3", "U+DFF5", "U+DFF6", "U+DFF7", "U+DFF8", "U+DFF9",
      "U+DFFA", "U+DFFB", "U+DFFD", "U+DFFE"}}
    \cup
  {<<"U+D82F", lo>> : lo \in
     {"U+DC9D", "U+DC9E", "U+DCA0", "U+DCA1", "U+DCA2", "U+DCA3"}}
    \cup
  {<<"U+D833", lo>> : lo \in
     {"U+DF00", "U+DF01", "U+DF02", "U+DF03", "U+DF04", "U+DF05", "U+DF06", "U+DF07", "U+DF08",
      "U+DF09", "U+DF0A", "U+DF0B", "U+DF0C", "U+DF0D", "U+DF0E", "U+DF0F", "U+DF10", "U+DF11",
      "U+DF12", "U+DF13", "U+DF14", "U+DF15", "U+DF16", "U+DF17", "U+DF18", "U+DF19", "U+DF1A",
      "U+DF1B", "U+DF1C", "U+DF1D", "U+DF1E", "U+DF1F", "U+DF20", "U+DF21", "U+DF22", "U+DF23",
      "U+DF24", "U+DF25", "U+DF26", "U+DF27", "U+DF28", "U+DF29", "U+DF2A", "U+DF2B", "U+DF2C",
      "U+DF2D", "U+DF30", "U+DF31", "U+DF32", "U+DF33", "U+DF34", "U+DF35", "U+DF36", "U+DF37",
      "U+DF38", "U+DF39", "U+DF3A", "U+DF3B", "U+DF3C", "U+DF3D", "U+DF3E", "U+DF3F", "U+DF40",
      "U+DF41", "U+DF42", "U+DF43", "U+DF44", "U+DF45", "U+DF46"}}
    \cup
  {<<"U+D834", lo>> : lo \in
     {"U+DD67", "U+DD68", "U+DD69", "U+DD73", "U+DD74", "U+DD75", "U+DD76", "U+DD77", "U+DD78",
      "U+DD79", "U+DD7A", "U+DD7B", "U+DD7C", "U+DD7D", "U+DD7E", "U+DD7F", "U+DD80", "U+DD81",
      "U+DD82", "U+DD85", "U+DD86", "U+DD87", "U+DD88", "U+DD89", "U+DD8A", "U+DD8B", "U+DDAA",
      "U+DDAB", "U+DDAC", "U+DDAD", "U+DE42", "U+DE43", "U+DE44"}}
    \cup
  {<<"U+D836", lo>> : lo \in
     {"U+DE00", "U+DE01", "U+DE02", "U+DE03", "U+DE04", "U+DE05", "U+DE06", "U+DE07", "U+DE08",
      "U+DE09", "U+DE0A", "U+DE0B", "U+DE0C", "U+DE0D", "U+DE0E", "U+DE0F", "U+DE10", "U+DE11",
      "U+DE12", "U+DE13", "U+DE14", "U+DE15", "U+DE16", "U+DE17", "U+DE18", "U+DE19", "U+DE1A",
      "U+DE1B", "U+DE1C", "U+DE1D", "U+DE1E", "U+DE1F", "U+DE20", "U+DE21", "U+DE22", "U+DE23",
      "U+DE24", "U+DE25", "U+DE26", "U+DE27", "U+DE28", "U+DE29", "U+DE2A", "U+DE2B", "U+DE2C",
      "U+DE2D", "U+DE2E", "U+DE2F", "U+DE30", "U+DE31", "U+DE32", "U+DE33", "U+DE34", "U+DE35",
      "U+DE36", "U+DE3B", "U+DE3C", "U+DE3D", "U+DE3E", "U+DE3F", "U+DE40", "U+DE41", "U+DE42",
      "U+DE43", "U+DE44", "U+DE45", "U+DE46", "U+DE47", "U+DE48", "U+DE49", "U+DE4A", "U+DE4B",
      "U+DE4C", "U+DE4D", "U+DE4E", "U+DE4F", "U+DE50", "U+DE51", "U+DE52", "U+DE53", "U+DE54",
      "U+DE55", "U+DE56", "U+DE57", "U+DE58", "U+DE59", "U+DE5A", "U+DE5B", "U+DE5C", "U+DE5D",
      "U+DE5E", "U+DE5F", "U+DE60", "U+DE61", "U+DE62", "U+DE63", "U+DE64", "U+DE65", "U+DE66",
      "U+DE67", "U+DE68", "U+DE69", "U+DE6A", "U+DE6B", "U+DE6C", "U+DE75", "U+DE84", "U+DE9B",
      "U+DE9C", "U+DE9D", "U+DE9E", "U+DE9F", "U+DEA1", "U+DEA2", "U+DEA3", "U+DEA4", "U+DEA5",
      "U+DEA6", "U+DEA7", "U+DEA8", "U+DEA9", "U+DEAA", "U+DEAB", "U+DEAC", "U+DEAD", "U+DEAE",
      "U+DEAF"}}
    \cup
  {<<"U+D838", lo>> : lo \in
     {"U+DC00", "U+DC01", "U+DC02", "U+DC03", "U+DC04", "U+DC05", "U+DC06", "U+DC08", "U+DC09",
      "U+DC0A", "U+DC0B", "U+DC0C", "U+DC0D", "U+DC0E", "U+DC0F", "U+DC10", "U+DC11", "U+DC12",
      "U+DC13", "U+DC14", "U+DC15", "U+DC16", "U+DC17", "U+DC18", "U+DC1B", "U+DC1C", "U+DC1D",
      "U+DC1E", "U+DC1F", "U+DC20", "U+DC21", "U+DC23", "U+DC24", "U+DC26", "U+DC27", "U+DC28",
      "U+DC29", "U+DC2A", "U+DC30", "U+DC31", "U+DC32", "U+DC33", "U+DC34", "U+DC35", "U+DC36",
      "U+DC37", "U+DC38", "U+DC39", "U+DC3A", "U+DC3B", "U+DC3C", "U+DC3D", "U+DC3E", "U+DC3F",
      "U+DC40", "U+DC41", "U+DC42", "U+DC43", "U+DC44", "U+DC45", "U+DC46", "U+DC47", "U+DC48",
      "U+DC49", "U+DC4A", "U+DC4B", "U+DC4C", "U+DC4D", "U+DC4E", "U+DC4F", "U+DC50", "U+DC51",
      "U+DC52", "U+DC53", "U+DC54", "U+DC55", "U+DC56", "U+DC57", "U+DC58", "U+DC59", "U+DC5A",
      "U+DC5B", "U+DC5C", "U+DC5D", "U+DC5E", "U+DC5F", "U+DC60", "U+DC61", "U+DC62", "U+DC63",
      "U+DC64", "U+DC65", "U+DC66", "U+DC67", "U+DC68", "U+DC69", "U+DC6A", "U+DC6B", "U+DC6C",
      "U+DC6D", "U+DC8F", "U+DD30", "U+DD31", "U+DD32", "U+DD33", "U+DD34", "U+DD35", "U+DD36",
      "U+DD37", "U+DD38", "U+DD39", "U+DD3A", "U+DD3B", "U+DD3C", "U+DD3D", "U+DEAE", "U+DEEC",
      "U+DEED", "U+DEEE", "U+DEEF"}}
    \cup
  {<<"U+D839", lo>> : lo \in
     {"U+DCEB", "U+DCEC", "U+DCED", "U+DCEE", "U+DCEF", "U+DDEE", "U+DDEF", "U+DEE3", "U+DEE6",
      "U+DEEE", "U+DEEF", "U+DEF5", "U+DEFF"}}
    \cup
  {<<"U+D83A", lo>> : lo \in
     {"U+DCD0", "U+DCD1", "U+DCD2", "U+DCD3", "U+DCD4", "U+DCD5", "U+DCD6", "U+DD44", "U+DD45",
      "U+DD46", "U+DD47", "U+DD48", "U+DD49", "U+DD4A", "U+DD4B"}}
    \cup
  {<<"U+D83C", lo>> : lo \in
     {"U+DFFB", "U+DFFC", "U+DFFD", "U+DFFE", "U+DFFF"}}
    \cup
  {<<"U+DB40", lo>> : lo \in
     {"U+DC01", "U+DC20", "U+DC21", "U+DC22", "U+DC23", "U+DC24", "U+DC25", "U+DC26", "U+DC27",
      "U+DC28", "U+DC29", "U+DC2A", "U+DC2B", "U+DC2C", "U+DC2D", "U+DC2E", "U+DC2F", "U+DC30",
      "U+DC31", "U+DC32", "U+DC33", "U+DC34", "U+DC35", "U+DC36", "U+DC37", "U+DC38", "U+DC39",
      "U+DC3A", "U+DC3B", "U+DC3C", "U+DC3D", "U+DC3E", "U+DC3F", "U+DC40", "U+DC41", "U+DC42",
      "U+DC43", "U+DC44", "U+DC45", "U+DC46", "U+DC47", "U+DC48", "U+DC49", "U+DC4A", "U+DC4B",
      "U+DC4C", "U+DC4D", "U+DC4E", "U+DC4F", "U+DC50", "U+DC51", "U+DC52", "U+DC53", "U+DC54",
      "U+DC55", "U+DC56", "U+DC57", "U+DC58", "U+DC59", "U+DC5A", "U+DC5B", "U+DC5C", "U+DC5D",
      "U+DC5E", "U+DC5F", "U+DC60", "U+DC61", "U+DC62", "U+DC63", "U+DC64", "U+DC65", "U+DC66",
      "U+DC67", "U+DC68", "U+DC69", "U+DC6A", "U+DC6B", "U+DC6C", "U+DC6D", "U+DC6E", "U+DC6F",
      "U+DC70", "U+DC71", "U+DC72", "U+DC73", "U+DC74", "U+DC75", "U+DC76", "U+DC77", "U+DC78",
      "U+DC79", "U+DC7A", "U+DC7B", "U+DC7C", "U+DC7D", "U+DC7E", "U+DC7F", "U+DD00", "U+DD01",
      "U+DD02", "U+DD03", "U+DD04", "U+DD05", "U+DD06", "U+DD07", "U+DD08", "U+DD09", "U+DD0A",
      "U+DD0B", "U+DD0C", "U+DD0D", "U+DD0E", "U+DD0F", "U+DD10", "U+DD11", "U+DD12", "U+DD13",
      "U+DD14", "U+DD15", "U+DD16", "U+DD17", "U+DD18", "U+DD19", "U+DD1A", "U+DD1B", "U+DD1C",
      "U+DD1D", "U+DD1E", "U+DD1F", "U+DD20", "U+DD21", "U+DD22", "U+DD23", "U+DD24", "U+DD25",
      "U+DD26", "U+DD27", "U+DD28", "U+DD29", "U+DD2A", "U+DD2B", "U+DD2C", "U+DD2D", "U+DD2E",
      "U+DD2F", "U+DD30", "U+DD31", "U+DD32", "U+DD33", "U+DD34", "U+DD35", "U+DD36", "U+DD37",
      "U+DD38", "U+DD39", "U+DD3A", "U+DD3B", "U+DD3C", "U+DD3D", "U+DD3E", "U+DD3F", "U+DD40",
      "U+DD41", "U+DD42", "U+DD43", "U+DD44", "U+DD45", "U+DD46", "U+DD47", "U+DD48", "U+DD49",
      "U+DD4A", "U+DD4B", "U+DD4C", "U+DD4D", "U+DD4E", "U+DD4F", "U+DD50", "U+DD51", "U+DD52",
      "U+DD53", "U+DD54", "U+DD55", "U+DD56", "U+DD57", "U+DD58", "U+DD59", "U+DD5A", "U+DD5B",
      "U+DD5C", "U+DD5D", "U+DD5E", "U+DD5F", "U+DD60", "U+DD61", "U+DD62", "U+DD63", "U+DD64",
      "U+DD65", "U+DD66", "U+DD67", "U+DD68", "U+DD69", "U+DD6A", "U+DD6B", "U+DD6C", "U+DD6D",
      "U+DD6E", "U+DD6F", "U+DD70", "U+DD71", "U+DD72", "U+DD73", "U+DD74", "U+DD75", "U+DD76",
      "U+DD77", "U+DD78", "U+DD79", "U+DD7A", "U+DD7B", "U+DD7C", "U+DD7D", "U+DD7E", "U+DD7F",
      "U+DD80", "U+DD81", "U+DD82", "U+DD83", "U+DD84", "U+DD85", "U+DD86", "U+DD87", "U+DD88",
      "U+DD89", "U+DD8A", "U+DD8B", "U+DD8C", "U+DD8D", "U+DD8E", "U+DD8F", "U+DD90", "U+DD91",
      "U+DD92", "U+DD93", "U+DD94", "U+DD95", "U+DD96", "U+DD97", "U+DD98", "U+DD99", "U+DD9A",
      "U+DD9B", "U+DD9C", "U+DD9D", "U+DD9E", "U+DD9F", "U+DDA0", "U+DDA1", "U+DDA2", "U+DDA3",
      "U+DDA4", "U+DDA5", "U+DDA6", "U+DDA7", "U+DDA8", "U+DDA9", "U+DDAA", "U+DDAB", "U+DDAC",
      "U+DDAD", "U+DDAE", "U+DDAF", "U+DDB0", "U+DDB1", "U+DDB2", "U+DDB3", "U+DDB4", "U+DDB5",
      "U+DDB6", "U+DDB7", "U+DDB8", "U+DDB9", "U+DDBA", "U+DDBB", "U+DDBC", "U+DDBD", "U+DDBE",
      "U+DDBF", "U+DDC0", "U+DDC1", "U+DDC2", "U+DDC3", "U+DDC4", "U+DDC5", "U+DDC6", "U+DDC7",
      "U+DDC8", "U+DDC9", "U+DDCA", "U+DDCB", "U+DDCC", "U+DDCD", "U+DDCE", "U+DDCF", "U+DDD0",
      "U+DDD1", "U+DDD2", "U+DDD3", "U+DDD4", "U+DDD5", "U+DDD6", "U+DDD7", "U+DDD8", "U+DDD9",
      "U+DDDA", "U+DDDB", "U+DDDC", "U+DDDD", "U+DDDE", "U+DDDF", "U+DDE0", "U+DDE1", "U+DDE2",
      "U+DDE3", "U+DDE4", "U+DDE5", "U+DDE6", "U+DDE7", "U+DDE8", "U+DDE9", "U+DDEA", "U+DDEB",
      "U+DDEC", "U+DDED", "U+DDEE", "U+DDEF"}}

\* The lower case of each upper-case letter.
lowerTable ==
  [c \in {UpperChars[i] : i \in 1..Len(UpperChars)} |->
     LowerChars[CHOOSE i \in 1..Len(UpperChars) : UpperChars[i] = c]]

lowerPairTable ==
  [c \in {UpperPairs[i] : i \in 1..Len(UpperPairs)} |->
     LowerPairs[CHOOSE i \in 1..Len(UpperPairs) : UpperPairs[i] = c]]

\* The lower case of a code unit that has a lower case of one code unit.
lowerChar(c) == IF c \in DOMAIN lowerTable THEN lowerTable[c] ELSE c

\* A cased letter ends at index j or before it, with only case-ignorable
\* characters in between.
RECURSIVE CasedBefore(_, _)
CasedBefore(s, j) ==
  IF j < 1 THEN FALSE
  ELSE IF j > 1 /\ <<s[j - 1], s[j]>> \in CaseIgnorablePairs THEN CasedBefore(s, j - 2)
  ELSE IF j > 1 /\ <<s[j - 1], s[j]>> \in CasedPairs THEN TRUE
  ELSE IF s[j] \in CaseIgnorable THEN CasedBefore(s, j - 1)
  ELSE s[j] \in Cased

\* A cased letter starts at index j or after it, with only case-ignorable
\* characters in between.
RECURSIVE CasedAfter(_, _)
CasedAfter(s, j) ==
  IF j > Len(s) THEN FALSE
  ELSE IF j < Len(s) /\ <<s[j], s[j + 1]>> \in CaseIgnorablePairs THEN CasedAfter(s, j + 2)
  ELSE IF j < Len(s) /\ <<s[j], s[j + 1]>> \in CasedPairs THEN TRUE
  ELSE IF s[j] \in CaseIgnorable THEN CasedAfter(s, j + 1)
  ELSE s[j] \in Cased

\* The capital sigma at index i ends a word (condition Final_Sigma).
FinalSigma(s, i) == CasedBefore(s, i - 1) /\ ~CasedAfter(s, i + 1)

\* The lower case of s from index i on: a surrogate pair is mapped as a whole,
\* the capital I with dot above (U+0130) becomes i followed by the combining
\* dot above (U+0307), the capital sigma (U+03A3) becomes the final sigma
\* (U+03C2) at the end of a word and the sigma (U+03C3) elsewhere.
RECURSIVE lowerFrom(_, _)
lowerFrom(s, i) ==
  IF i > Len(s) THEN <<>>
  ELSE IF i < Len(s) /\ <<s[i], s[i + 1]>> \in DOMAIN lowerPairTable
  THEN lowerPairTable[<<s[i], s[i + 1]>>] \o lowerFrom(s, i + 2)
  ELSE IF s[i] = "U+0130" THEN <<"i", "U+0307">> \o lowerFrom(s, i + 1)
  ELSE IF s[i] = "U+03A3"
  THEN <<IF FinalSigma(s, i) THEN "U+03C2" ELSE "U+03C3">> \o lowerFrom(s, i + 1)
  ELSE <<lowerChar(s[i])>> \o lowerFrom(s, i + 1)

\* String.prototype.toLowerCase
toLowerCase(s) == lowerFrom(s, 1)

\* String.prototype.includes: sub occurs in s at some index.
RECURSIVE includesFrom(_, _, _)
includesFrom(s, sub, k) ==
  IF k + Len(sub) > Len(s) THEN FALSE
  ELSE IF SubSeq(s, k + 1, k + Len(sub)) = sub THEN TRUE
  ELSE includesFrom(s, sub, k + 1)

includes(s, sub) == includesFrom(s, sub, 0)

\* The white space and line terminators of ECMAScript, which trim removes:
\* tab, line feed, vertical tab, form feed, carriage return, space, no-break
\* space, and outside Latin-1 the byte order mark, the line and paragraph
\* separators and the space separators.
WhiteSpace ==
  {"\t", "\n", "", "\f", "\r", " ", " ",
   "U+FEFF", "U+2028", "U+2029", "U+1680",
   "U+2000", "U+2001", "U+2002", "U+2003", "U+2004", "U+2005", "U+2006",
   "U+2007", "U+2008", "U+2009", "U+200A", "U+202F", "U+205F", "U+3000"}

IsSpace(c) == c \in WhiteSpace

RECURSIVE trimStart(_)
trimStart(s) ==
  IF s # <<>> /\ IsSpace(Head(s)) THEN trimStart(Tail(s)) ELSE s

RECURSIVE trimEnd(_)
trimEnd(s) ==
  IF s # <<>> /\ IsSpace(s[Len(s)]) THEN trimEnd(SubSeq(s, 1, Len(s) - 1)) ELSE s

\* Faulty variant of trim: nothing is removed.
trimNone(s) == s

\* String.prototype.trim
trim(s) == trimEnd(trimStart(s))

DigitChars == <<"0", "1", "2", "3", "4", "5", "6", "7", "8", "9">>

HexLetters == <<"a", "b", "c", "d", "e", "f">>

\* A natural number of any size is the sequence of its decimal digits, the
\* most significant first, without leading zeros (<<0>> is zero).
RECURSIVE natOf(_)
natOf(n) == IF n < 10 THEN <<n>> ELSE natOf(n \div 10) \o <<n % 10>>

\* The digits without their leading zeros.
natStrip(a) ==
  LET nonZero == {i \in 1..Len(a) : a[i] # 0}
  IN IF nonZero = {} THEN <<0>>
     ELSE SubSeq(a, CHOOSE i \in nonZero : \A j \in nonZero : i <= j, Len(a))

\* a < b
natLess(a, b) ==
  \/ Len(a) < Len(b)
  \/ /\ Len(a) = Len(b)
     /\ \E i \in 1..Len(a) : a[i] < b[i] /\ \A j \in 1..(i - 1) : a[j] = b[j]

natOdd(a) == a[Len(a)] % 2 = 1

\* a \div 2: the remainder carried into a digit is the parity of the digit
\* before it.
natHalf(a) ==
  natStrip([i \in 1..Len(a) |->
              (a[i] + (IF i > 1 /\ a[i - 1] % 2 = 1 THEN 10 ELSE 0)) \div 2])

\* 2 * a: the carry into a digit comes from the next digit being 5 or more.
natDouble(a) ==
  LET d == [i \in 1..Len(a) |->
              ((2 * a[i]) % 10) + (IF i < Len(a) /\ a[i + 1] >= 5 THEN 1 ELSE 0)]
  IN (IF a[1] >= 5 THEN <<1>> ELSE <<>>) \o d

\* a with zeros in front, n digits in all
natPad(a, n) == [i \in 1..(n - Len(a)) |-> 0] \o a

\* a + b
natAdd(a, b) ==
  LET n == IF Len(a) > Len(b) THEN Len(a) ELSE Len(b)
      x == natPad(a, n)
      y == natPad(b, n)
      carry(i) == \E k \in (i + 1)..n :
                    /\ x[k] + y[k] >= 10
                    /\ \A m \in (i + 1)..(k - 1) : x[m] + y[m] = 9
      d == [i \in 1..n |-> (x[i] + y[i] + (IF carry(i) THEN 1 ELSE 0)) % 10]
  IN (IF carry(0) THEN <<1>> ELSE <<>>) \o d

\* a - b, for a >= b
natSub(a, b) ==
  LET n == Len(a)
      y == natPad(b, n)
      borrow(i) == \E k \in (i + 1)..n :
                     /\ a[k] < y[k]
                     /\ \A m \in (i + 1)..(k - 1) : a[m] = y[m]
  IN natStrip([i \in 1..n |-> (a[i] + 10 - y[i] - (IF borrow(i) THEN 1 ELSE 0)) % 10])

\* a * 2^j, by halves of j
RECURSIVE natShiftLeft(_, _)
natShiftLeft(a, j) ==
  IF j = 0 THEN a
  ELSE IF j = 1 THEN natDouble(a)
  ELSE LET half == natShiftLeft(a, j \div 2)
       IN IF Len(half) = 0 THEN half ELSE natShiftLeft(half, j - (j \div 2))

\* a \div 2^j, by halves of j
RECURSIVE natShiftRight(_, _)
natShiftRight(a, j) ==
  IF j = 0 THEN a
  ELSE IF j = 1 THEN natHalf(a)
  ELSE LET half == natShiftRight(a, j \div 2)
       IN IF Len(half) = 0 THEN half ELSE natShiftRight(half, j - (j \div 2))

\* 2^52 and 2^53: a double has 53 significant bits
Two52 == <<4, 5, 0, 3, 5, 9, 9, 6, 2, 7, 3, 7, 0, 4, 9, 6>>

Two53 == <<9, 0, 0, 7, 1, 9, 9, 2, 5, 4, 7, 4, 0, 9, 9, 2>>

\* The largest exponent of a double: the doubles are below 2^1024, which has
\* 309 digits.
MaxExponent == 1023

MaxDigits == 309

\* The least j in lo..hi with a \div 2^j < 2^53, which hi satisfies.
RECURSIVE natExponent(_, _, _)
natExponent(a, lo, hi) ==
  IF lo = hi THEN lo
  ELSE LET mid == (lo + hi) \div 2
       IN IF natLess(natShiftRight(a, mid), Two53) THEN natExponent(a, lo, mid)
          ELSE natExponent(a, mid + 1, hi)

\* a = q * 2^j + (the bits dropped), with q < 2^53 and j as small as can be:
\* round is the last bit dropped, sticky whether a bit dropped before it was
\* set.  A number of at most MaxDigits digits is below 2^1027.
natMantissa(a) ==
  LET j == natExponent(a, 0, MaxExponent + 4)
      kept == IF j = 0 THEN a ELSE natShiftRight(a, j - 1)
  IN [q |-> IF j = 0 THEN a ELSE natHalf(kept),
      j |-> j,
      round |-> j > 0 /\ natOdd(kept),
      sticky |-> j > 0 /\ natShiftLeft(kept, j - 1) # a]

\* A Number of JavaScript that parseInt or Date.now() can return, or a year
\* of the seed: an integer (its sign, which zero has too, and the digits of
\* its magnitude), an infinity or NaN.
Finite(negative, digits) == [kind |-> "finite", negative |-> negative, digits |-> digits]

Infinity(negative) == [kind |-> "Infinity", negative |-> negative, digits |-> <<>>]

NaN == [kind |-> "NaN", negative |-> FALSE, digits |-> <<>>]

\* The Number of a small integer.
Number(n) == Finite(n < 0, natOf(IF n < 0 THEN 0 - n ELSE n))

\* The mantissa m rounded to the nearest, to the even one on a tie, as a
\* double: an infinity when the exponent is above the largest.
roundedDouble(negative, m) ==
  LET q == IF m.round /\ (m.sticky \/ natOdd(m.q)) THEN natAdd(m.q, <<1>>) ELSE m.q
  IN IF m.j + (IF q = Two53 THEN 54 ELSE 53) > MaxExponent + 1 THEN Infinity(negative)
     ELSE Finite(negative, natShiftLeft(q, m.j))

\* The double nearest to the natural number a (ties to the even mantissa),
\* an infinity from 2^1024 - 2^970 on.
toDouble(negative, a) ==
  IF Len(a) > MaxDigits THEN Infinity(negative)
  ELSE IF natLess(a, Two53) THEN Finite(negative, a)
  ELSE roundedDouble(negative, natMantissa(a))

\* The decimal digits as a string.
digitsText(a) == <<>> \o [i \in 1..Len(a) |-> DigitChars[a[i] + 1]]

\* The digits without their trailing zeros.
significand(a) ==
  LET nonZero == {i \in 1..Len(a) : a[i] # 0}
  IN SubSeq(a, 1, CHOOSE i \in nonZero : \A j \in nonZero : i >= j)

\* c reads back as the double whose rounding interval is low4 / 4 to
\* high4 / 4, the ends included when its mantissa is even.
readsBack(c, inclusive, low4, high4) ==
  LET c4 == natDouble(natDouble(c))
  IN IF inclusive THEN ~natLess(c4, low4) /\ ~natLess(high4, c4)
     ELSE natLess(low4, c4) /\ natLess(c4, high4)

\* a cut to its first i digits, and the next number of i digits above it
below(a, i) == SubSeq(a, 1, i) \o [j \in 1..(Len(a) - i) |-> 0]

above(a, i) == natAdd(below(a, i), <<1>> \o [j \in 1..(Len(a) - i) |-> 0])

\* Of the numbers of at most 17 significant digits next to a that read back
\* as a, the one with the fewest digits, the nearest to a among those, the
\* even one when two are as near.
shortestWithin(a, inclusive, low4, high4) ==
  LET Cuts == 1..(IF Len(a) < 17 THEN Len(a) ELSE 17)
      Reading == {c \in {below(a, i) : i \in Cuts} \cup {above(a, i) : i \in Cuts} :
                    readsBack(c, inclusive, low4, high4)}
      digits(c) == Len(significand(c))
      distance(c) == IF natLess(c, a) THEN natSub(a, c) ELSE natSub(c, a)
      Better(c, d) ==
        \/ digits(c) < digits(d)
        \/ /\ digits(c) = digits(d)
           /\ \/ natLess(distance(c), distance(d))
              \/ distance(c) = distance(d) /\ c[digits(c)] % 2 = 0
  IN CHOOSE c \in Reading : \A d \in Reading \ {c} : Better(c, d)

shortestFor(a, m) ==
  shortestWithin(a, ~natOdd(m.q),
                 natSub(natDouble(natDouble(a)),
                        natShiftLeft(<<1>>, IF m.q = Two52 THEN m.j ELSE m.j + 1)),
                 natAdd(natDouble(natDouble(a)), natShiftLeft(<<1>>, m.j + 1)))

\* Number::toString for a double a >= 2^53: the decimal number with the
\* fewest significant digits that still reads back as a, the nearest to a
\* when there are several (the even one when two are as near).
shortestDigits(a) == shortestFor(a, natMantissa(a))

\* An integer below 1e21 is written with all its digits, a larger one in
\* exponent form: the first significant digit, the others after a point,
\* and the power of ten.
integerToString(sign, d) ==
  LET s == significand(d)
  IN IF Len(d) <= 21 THEN sign \o digitsText(d)
     ELSE sign \o <<DigitChars[s[1] + 1]>>
               \o (IF Len(s) > 1 THEN <<".">> \o digitsText(SubSeq(s, 2, Len(s)))
                   ELSE <<>>)
               \o <<"e", "+">> \o digitsText(natOf(Len(d) - 1))

\* Number.prototype.toString (radix 10) for the Numbers above.
numToString(x) ==
  IF x.kind = "NaN" THEN <<"N", "a", "N">>
  ELSE IF x.kind = "Infinity"
  THEN (IF x.negative THEN <<"-">> ELSE <<>>) \o <<"I", "n", "f", "i", "n", "i", "t", "y">>
  ELSE integerToString(IF x.negative /\ x.digits # <<0>> THEN <<"-">> ELSE <<>>,
                       IF natLess(x.digits, Two53) THEN x.digits
                       ELSE shortestDigits(x.digits))

\* The value of c as a digit of the radix (10 or 16), -1 when it is none.
digitValue(c, radix) ==
  IF \E d \in 1..10 : DigitChars[d] = c
  THEN (CHOOSE d \in 1..10 : DigitChars[d] = c) - 1
  ELSE IF radix = 16 /\ \E d \in 1..6 : HexLetters[d] = lowerChar(c)
  THEN (CHOOSE d \in 1..6 : HexLetters[d] = lowerChar(c)) + 9
  ELSE -1

\* The value of the hexadecimal digits h, by halves of h.
RECURSIVE natOfHex(_)
natOfHex(h) ==
  IF Len(h) = 1 THEN natOf(h[1])
  ELSE LET mid == Len(h) \div 2
           high == natOfHex(SubSeq(h, 1, mid))
       IN IF Len(high) = 0 THEN high
          ELSE natAdd(natShiftLeft(high, 4 * (Len(h) - mid)),
                      natOfHex(SubSeq(h, mid + 1, Len(h))))

\* parseInt, its digits: the mathematical value of the longest prefix of s
\* made of digits of the radix, acc being the value of the digits read so
\* far.
parseDigits(s, radix, acc) ==
  LET others == {i \in 1..Len(s) : digitValue(s[i], radix) = -1}
      count == IF others = {} THEN Len(s)
               ELSE (CHOOSE i \in others : \A j \in others : i <= j) - 1
      read == [i \in 1..count |-> digitValue(s[i], radix)]
  IN IF count = 0 THEN acc
     ELSE IF radix = 10 THEN natStrip(acc \o read)
     ELSE natAdd(natShiftLeft(acc, 4 * count), natOfHex(read))

\* parseInt(string) without radix: leading white space is skipped, a sign is
\* read, the prefix 0x or 0X selects radix 16, the digits are read as far as
\* they go; NaN when there is no digit, else the double nearest to the value
\* read.
parseInt(s) ==
  LET t == trimStart(s)
      negative == t # <<>> /\ Head(t) = "-"
      u == IF t # <<>> /\ Head(t) \in {"+", "-"} THEN Tail(t) ELSE t
      hex == Len(u) >= 2 /\ u[1] = "0" /\ u[2] \in {"x", "X"}
      radix == IF hex THEN 16 ELSE 10
      z == IF hex THEN SubSeq(u, 3, Len(u)) ELSE u
  IN IF z = <<>> \/ digitValue(Head(z), radix) = -1 THEN NaN
     ELSE toDouble(negative, parseDigits(z, radix, <<0>>))

(* ------------------------------ arrays -------------------------------- *)

\* Array.prototype.includes
arrayIncludes(arr, x) == \E i \in 1..Len(arr) : arr[i] = x

\* Array.prototype.filter keeping the elements whose index is in keep.
RECURSIVE filterIdx(_, _, _)
filterIdx(arr, keep, i) ==
  IF i > Len(arr) THEN <<>>
  ELSE (IF i \in keep THEN <<arr[i]>> ELSE <<>>) \o filterIdx(arr, keep, i + 1)

\* Array.prototype.find by id finds a record.
HasId(list, id) == \E i \in 1..Len(list) : list[i].id = id

\* books.find(b => b.id === bookId): the first match, or undefined
RECURSIVE findById(_, _)
findById(list, id) ==
  IF list = <<>> THEN None
  ELSE IF Head(list).id = id THEN Some(Head(list))
  ELSE findById(Tail(list), id)

(* ----------------------------- seed data ------------------------------ *)

INITIAL_BOOKS ==
  << [id |-> <<"1">>, title |-> <<"S", "i", "m", "p", "l", "i", "s", "s", "i", "m", "e">>,
      author |-> <<"J", "e", "a", "n", "-", "F", "r", "a", "n", "ç", "o", "i", "s", " ", "M", "a", "l", "l", "e", "t">>,
      pseudonym |-> None, editor |-> Some(<<"H", "a", "c", "h", "e", "t", "t", "e", " ", "P", "r", "a", "t", "i", "q", "u", "e">>),
      year |-> Some(Number(2015)), coverImage |-> None, category |-> Some(<<"C", "u", "i", "s", "i", "n", "e", " ", "r", "a", "p", "i", "d", "e">>),
      createdAt |-> 15],
     [id |-> <<"2">>, title |-> <<"L", "a", " ", "P", "â", "t", "i", "s", "s", "e", "r", "i", "e">>,
      author |-> <<"C", "h", "r", "i", "s", "t", "o", "p", "h", "e", " ", "F", "e", "l", "d", "e", "r">>,
      pseudonym |-> None, editor |-> Some(<<"L", "a", " ", "M", "a", "r", "t", "i", "n", "i", "è", "r", "e">>),
      year |-> Some(Number(2019)), coverImage |-> None, category |-> Some(<<"P", "â", "t", "i", "s", "s", "e", "r", "i", "e">>),
      createdAt |-> 41],
     [id |-> <<"3">>, title |-> <<"V", "e", "g", "g", "i", "e">>,
      author |-> <<"A", "l", "i", "c", "e", " ", "H", "a", "r", "t">>,
      pseudonym |-> None, editor |-> Some(<<"M", "a", "r", "a", "b", "o", "u", "t">>),
      year |-> Some(Number(2018)), coverImage |-> None, category |-> Some(<<"V", "é", "g", "é", "t", "a", "r", "i", "e", "n">>),
      createdAt |-> 65],
     [id |-> <<"4">>, title |-> <<"L", "e", " ", "G", "r", "a", "n", "d", " ", "L", "i", "v", "r", "e", " ", "d", "e", " ", "l", "a", " ", "C", "u", "i", "s", "i", "n", "e">>,
      author |-> <<"A", "l", "a", "i", "n", " ", "D", "u", "c", "a", "s", "s", "e">>,
      pseudonym |-> None, editor |-> Some(<<"D", "u", "c", "a", "s", "s", "e", " ", "É", "d", "i", "t", "i", "o", "n">>),
      year |-> Some(Number(2020)), coverImage |-> None, category |-> Some(<<"G", "a", "s", "t", "r", "o", "n", "o", "m", "i", "e">>),
      createdAt |-> 111] >>

INITIAL_RECIPES ==
  << [id |-> <<"1">>, name |-> <<"P", "o", "u", "l", "e", "t", " ", "r", "ô", "t", "i", " ", "a", "u", "x", " ", "h", "e", "r", "b", "e", "s">>,
      bookId |-> Some(<<"1">>),
      tags |-> << <<"p", "l", "a", "t">>, <<"v", "i", "a", "n", "d", "e">>, <<"f", "a", "c", "i", "l", "e">> >>,
      notes |-> <<"E", "x", "c", "e", "l", "l", "e", "n", "t", " ", "!", " ", "A", "j", "o", "u", "t", "e", "r", " ", "p", "l", "u", "s", " ", "d", "e", " ", "t", "h", "y", "m", " ", "l", "a", " ", "p", "r", "o", "c", "h", "a", "i", "n", "e", " ", "f", "o", "i", "s", ".">>,
      isFavorite |-> TRUE, recipeImage |-> None, createdAt |-> 20],
     [id |-> <<"2">>, name |-> <<"T", "a", "r", "t", "e", " ", "a", "u", " ", "c", "i", "t", "r", "o", "n", " ", "m", "e", "r", "i", "n", "g", "u", "é", "e">>,
      bookId |-> Some(<<"2">>),
      tags |-> << <<"d", "e", "s", "s", "e", "r", "t">>, <<"p", "â", "t", "i", "s", "s", "e", "r", "i", "e">>, <<"a", "g", "r", "u", "m", "e", "s">> >>,
      notes |-> <<"L", "a", " ", "m", "e", "r", "i", "n", "g", "u", "e", " ", "d", "o", "i", "t", " ", "ê", "t", "r", "e", " ", "b", "i", "e", "n", " ", "d", "o", "r", "é", "e", ".">>,
      isFavorite |-> TRUE, recipeImage |-> None, createdAt |-> 46],
     [id |-> <<"3">>, name |-> <<"B", "u", "d", "d", "h", "a", " ", "B", "o", "w", "l", " ", "c", "o", "l", "o", "r", "é">>,
      bookId |-> Some(<<"3">>),
      tags |-> << <<"p", "l", "a", "t">>, <<"v", "é", "g", "é", "t", "a", "r", "i", "e", "n">>, <<"s", "a", "n", "t", "é">> >>,
      notes |-> <<"P", "a", "r", "f", "a", "i", "t", " ", "p", "o", "u", "r", " ", "l", "e", " ", "d", "é", "j", "e", "u", "n", "e", "r", ",", " ", "t", "r", "è", "s", " ", "f", "r", "a", "i", "s", ".">>,
      isFavorite |-> FALSE, recipeImage |-> None, createdAt |-> 70],
     [id |-> <<"4">>, name |-> <<"R", "i", "s", "o", "t", "t", "o", " ", "a", "u", "x", " ", "c", "h", "a", "m", "p", "i", "g", "n", "o", "n", "s">>,
      bookId |-> Some(<<"4">>),
      tags |-> << <<"p", "l", "a", "t">>, <<"i", "t", "a", "l", "i", "e", "n">>, <<"v", "é", "g", "é", "t", "a", "r", "i", "e", "n">> >>,
      notes |-> <<"R", "e", "m", "u", "e", "r", " ", "c", "o", "n", "s", "t", "a", "m", "m", "e", "n", "t", " ", "p", "o", "u", "r", " ", "u", "n", " ", "r", "é", "s", "u", "l", "t", "a", "t", " ", "c", "r", "é", "m", "e", "u", "x", ".">>,
      isFavorite |-> TRUE, recipeImage |-> None, createdAt |-> 116],
     [id |-> <<"5">>, name |-> <<"C", "r", "ê", "p", "e", "s", " ", "m", "a", "i", "s", "o", "n">>,
      bookId |-> Some(<<"1">>),
      tags |-> << <<"d", "e", "s", "s", "e", "r", "t">>, <<"f", "a", "c", "i", "l", "e">>, <<"g", "o", "u", "r", "m", "a", "n", "d">> >>,
      notes |-> <<"R", "e", "c", "e", "t", "t", "e", " ", "f", "a", "m", "i", "l", "i", "a", "l", "e", " ", "t", "e", "s", "t", "é", "e", " ", "e", "t", " ", "a", "p", "p", "r", "o", "u", "v", "é", "e", ".">>,
      isFavorite |-> FALSE, recipeImage |-> None, createdAt |-> 122] >>

INITIAL_TAGS ==
  << <<"p", "l", "a", "t">>,
     <<"d", "e", "s", "s", "e", "r", "t">>,
     <<"e", "n", "t", "r", "é", "e">>,
     <<"v", "i", "a", "n", "d", "e">>,
     <<"p", "o", "i", "s", "s", "o", "n">>,
     <<"v", "é", "g", "é", "t", "a", "r", "i", "e", "n">>,
     <<"p", "â", "t", "i", "s", "s", "e", "r", "i", "e">>,
     <<"f", "a", "c", "i", "l", "e">>,
     <<"r", "a", "p", "i", "d", "e">>,
     <<"s", "a", "n", "t", "é">>,
     <<"g", "o", "u", "r", "m", "a", "n", "d">>,
     <<"i", "t", "a", "l", "i", "e", "n">>,
     <<"f", "r", "a", "n", "ç", "a", "i", "s">>,
     <<"a", "g", "r", "u", "m", "e", "s">> >>

INITIAL_COLLECTIONS ==
  << [id |-> <<"1">>, name |-> <<"M", "e", "s", " ", "F", "a", "v", "o", "r", "i", "s">>,
      tags |-> << <<"f", "a", "v", "o", "r", "i", "s">> >>, createdAt |-> 1],
     [id |-> <<"2">>, name |-> <<"R", "e", "p", "a", "s", " ", "R", "a", "p", "i", "d", "e", "s">>,
      tags |-> << <<"f", "a", "c", "i", "l", "e">>, <<"r", "a", "p", "i", "d", "e">> >>, createdAt |-> 5] >>

(* ------------------------------- state -------------------------------- *)

VARIABLES
  books,         \* useState<Book[]> of AppProvider
  recipes,       \* useState<Recipe[]>
  tags,          \* useState<string[]>: the tag registry
  collections,   \* useState<Collection[]>
  renderedBooks,       \* `books` as captured by the closures of the last render
  renderedRecipes,     \* `recipes` as captured by them
  renderedTags,        \* `tags` as captured by them
  renderedCollections, \* `collections` as captured by them
  now,           \* Date.now()
  steps,         \* number of handler calls made so far
  last,          \* the last handler call: its name, argument, result, alert
  input,         \* the arguments of a derived query under examination
  theme          \* ThemeProvider: its state, its pending storage calls and
                 \* the '@theme_preference' entry of AsyncStorage

vars == <<books, recipes, tags, collections, renderedBooks, renderedRecipes, renderedTags,
          renderedCollections, now, steps, last, input, theme>>

store == <<books, recipes, tags, collections>>

\* The store as the closures of the last render see it.
rendered == <<renderedBooks, renderedRecipes, renderedTags, renderedCollections>>

\* awaiting is the alert the handler shows once it resumes after its await,
\* "" when none is to come; dialog is the confirmation dialog that is open
\* (the name of the handler that opened it), "" when none is.
NoCall ==
  [op |-> "", arg |-> None, ret |-> None, alert |-> "", awaiting |-> "", dialog |-> ""]

\* The values stored under '@theme_preference'.
txtDark == <<"d", "a", "r", "k">>

txtLight == <<"l", "i", "g", "h", "t">>

\* ThemeProvider right after its mount: isDark is the system colour scheme and
\* loadThemePreference waits for AsyncStorage.getItem, which will resolve
\* with the entry stored at that time, or reject.
ThemeProvider(systemIsDark, stored) ==
  [ system     |-> systemIsDark,   \* useColorScheme() === 'dark'
    isDark     |-> systemIsDark,   \* useState(systemColorScheme === 'dark')
    rendered   |-> systemIsDark,   \* isDark as captured by the last render
    stored     |-> stored,         \* the '@theme_preference' entry, or null
    load       |-> "pending",      \* loadThemePreference: pending or done
    savedTheme |-> stored,         \* what the pending getItem resolves with
    writes     |-> <<>>,           \* setItem calls not yet carried out
    errors     |-> <<>> ]          \* what console.error has written

\* ThemeProvider on a light system with nothing stored, once
\* loadThemePreference has returned.
ThemeLoaded == [ThemeProvider(FALSE, None) EXCEPT !.load = "done"]

Init ==
  /\ books = INITIAL_BOOKS
  /\ recipes = INITIAL_RECIPES
  /\ tags = INITIAL_TAGS
  /\ collections = INITIAL_COLLECTIONS
  /\ renderedBooks = books
  /\ renderedRecipes = recipes
  /\ renderedTags = tags
  /\ renderedCollections = collections
  /\ now = Epoch0
  /\ steps = 0
  /\ last = NoCall
  /\ input = None
  /\ theme = ThemeLoaded

(* ------------------- state updaters of the store ---------------------- *)

\* Faulty variant of addBookUpdater: a book without title is refused.
addBookUpdaterValidating(prevBooks, book) ==
  IF book.title = <<>> THEN prevBooks ELSE Append(prevBooks, book)

\* prevBooks => [...prevBooks, book]
addBookUpdater(prevBooks, book) == Append(prevBooks, book)

\* Faulty variant of updateBookUpdater: the record is removed and the new one
\* appended at the end of the list.
updateBookUpdaterAppending(prevBooks, book) ==
  IF \E i \in 1..Len(prevBooks) : prevBooks[i].id = book.id
  THEN Append(filterIdx(prevBooks,
                        {i \in 1..Len(prevBooks) : prevBooks[i].id # book.id}, 1),
              book)
  ELSE prevBooks

\* prevBooks => prevBooks.map(b => b.id === book.id ? book : b)
updateBookUpdater(prevBooks, book) ==
  [i \in 1..Len(prevBooks) |->
     IF prevBooks[i].id = book.id THEN book ELSE prevBooks[i]]

\* prevBooks => prevBooks.filter(b => b.id !== bookId)
deleteBookUpdater(prevBooks, bookId) ==
  filterIdx(prevBooks, {i \in 1..Len(prevBooks) : prevBooks[i].id # bookId}, 1)

\* Faulty variant of detachUpdater: the recipes of the deleted book are
\* removed instead of detached.
detachUpdaterRemoving(prevRecipes, bookId) ==
  filterIdx(prevRecipes,
            {i \in 1..Len(prevRecipes) : prevRecipes[i].bookId # Some(bookId)}, 1)

\* Faulty variant of detachUpdater: a detached recipe also loses its
\* favorite mark.
detachUpdaterUnmarking(prevRecipes, bookId) ==
  [i \in 1..Len(prevRecipes) |->
     IF prevRecipes[i].bookId = Some(bookId)
     THEN [prevRecipes[i] EXCEPT !.bookId = None, !.isFavorite = FALSE]
     ELSE prevRecipes[i]]

\* prevRecipes => prevRecipes.map(r => r.bookId === bookId ? detached : r)
detachUpdater(prevRecipes, bookId) ==
  [i \in 1..Len(prevRecipes) |->
     IF prevRecipes[i].bookId = Some(bookId)
     THEN [prevRecipes[i] EXCEPT !.bookId = None]
     ELSE prevRecipes[i]]

\* The value of detachedCount when deleteBook executes `return`.  The counter
\* starts at 0 and is incremented only inside the updater given to
\* setRecipes.  React evaluates an updater inside the setState call only when
\* the component has no update pending; here setBooks has just queued one
\* (filter returns a new array, so it is never dropped as a no-op), so the
\* recipes updater is queued and runs during the next render, after the
\* return statement has read the counter.
detachedCountAtReturn(prevRecipes, bookId) ==
  LET updatePending == TRUE
      ranInCall == ~updatePending
  IN IF ranInCall
     THEN Cardinality({i \in 1..Len(prevRecipes) : prevRecipes[i].bookId = Some(bookId)})
     ELSE 0

\* prevRecipes => [...prevRecipes, recipe]
addRecipeUpdater(prevRecipes, recipe) == Append(prevRecipes, recipe)

\* Faulty variant of updateRecipeUpdater: the stored bookId is kept.
updateRecipeUpdaterKeepingBookId(prevRecipes, recipe) ==
  [i \in 1..Len(prevRecipes) |->
     IF prevRecipes[i].id = recipe.id
     THEN [recipe EXCEPT !.bookId = prevRecipes[i].bookId]
     ELSE prevRecipes[i]]

\* prevRecipes => prevRecipes.map(r => r.id === recipe.id ? recipe : r)
updateRecipeUpdater(prevRecipes, recipe) ==
  [i \in 1..Len(prevRecipes) |->
     IF prevRecipes[i].id = recipe.id THEN recipe ELSE prevRecipes[i]]

\* Faulty variant of deleteRecipeUpdater: the recipes that follow the deleted
\* one are removed with it.
deleteRecipeUpdaterTruncating(prevRecipes, recipeId) ==
  filterIdx(prevRecipes,
            {i \in 1..Len(prevRecipes) :
               \A j \in 1..i : prevRecipes[j].id # recipeId}, 1)

\* prevRecipes => prevRecipes.filter(r => r.id !== recipeId)
deleteRecipeUpdater(prevRecipes, recipeId) ==
  filterIdx(prevRecipes, {i \in 1..Len(prevRecipes) : prevRecipes[i].id # recipeId}, 1)

\* Faulty variant of toggleFavoriteUpdater: the flag of every recipe is flipped.
toggleFavoriteUpdaterAll(prevRecipes, recipeId) ==
  [i \in 1..Len(prevRecipes) |->
     [prevRecipes[i] EXCEPT !.isFavorite = ~prevRecipes[i].isFavorite]]

\* Faulty variant of toggleFavoriteUpdater: the flag is set instead of flipped.
toggleFavoriteUpdaterSetting(prevRecipes, recipeId) ==
  [i \in 1..Len(prevRecipes) |->
     IF prevRecipes[i].id = recipeId
     THEN [prevRecipes[i] EXCEPT !.isFavorite = TRUE]
     ELSE prevRecipes[i]]

\* prevRecipes => prevRecipes.map(r => r.id === recipeId ? {...r, isFavorite: !r.isFavorite} : r)
toggleFavoriteUpdater(prevRecipes, recipeId) ==
  [i \in 1..Len(prevRecipes) |->
     IF prevRecipes[i].id = recipeId
     THEN [prevRecipes[i] EXCEPT !.isFavorite = ~prevRecipes[i].isFavorite]
     ELSE prevRecipes[i]]

\* Faulty variant of newTags: the negation is missing, so the tags already
\* known are kept and the unseen ones dropped.
newTagsKnownOnly(recipeTags, closureTags) ==
  filterIdx(recipeTags,
            {i \in 1..Len(recipeTags) : arrayIncludes(closureTags, recipeTags[i])}, 1)

\* recipe.tags.filter(tag => !tags.includes(tag)), `tags` being the closure's
newTags(recipeTags, closureTags) ==
  filterIdx(recipeTags,
            {i \in 1..Len(recipeTags) : ~arrayIncludes(closureTags, recipeTags[i])}, 1)

\* Faulty variant of registerTagsUpdater: nothing is appended.
registerTagsUpdaterDropping(prevTags, added) == prevTags

\* Faulty variant of registerTagsUpdater: the registry is replaced by the new
\* tags instead of extended with them.
registerTagsUpdaterReplacing(prevTags, added) ==
  IF Len(added) > 0 THEN added ELSE prevTags

\* if (newTags.length > 0) setTags(prevTags => [...prevTags, ...newTags])
registerTagsUpdater(prevTags, added) ==
  IF Len(added) > 0 THEN prevTags \o added ELSE prevTags

\* if (!tags.includes(tag)) setTags(prevTags => [...prevTags, tag])
addTagUpdater(prevTags, closureTags, tag) ==
  IF ~arrayIncludes(closureTags, tag) THEN Append(prevTags, tag) ELSE prevTags

\* prevCollections => [...prevCollections, collection]
addCollectionUpdater(prevCollections, collection) == Append(prevCollections, collection)

\* prevCollections => prevCollections.map(c => c.id === collection.id ? collection : c)
updateCollectionUpdater(prevCollections, collection) ==
  [i \in 1..Len(prevCollections) |->
     IF prevCollections[i].id = collection.id THEN collection ELSE prevCollections[i]]

\* prevCollections => prevCollections.filter(c => c.id !== collectionId)
deleteCollectionUpdater(prevCollections, collectionId) ==
  filterIdx(prevCollections,
            {i \in 1..Len(prevCollections) : prevCollections[i].id # collectionId}, 1)

(* ------------------------ store operations ---------------------------- *)

addBook(book) ==
  /\ books' = addBookUpdater(books, book)
  /\ UNCHANGED <<recipes, tags, collections>>

updateBook(book) ==
  /\ books' = updateBookUpdater(books, book)
  /\ UNCHANGED <<recipes, tags, collections>>

deleteBook(bookId) ==
  /\ books' = deleteBookUpdater(books, bookId)
  /\ recipes' = detachUpdater(recipes, bookId)
  /\ UNCHANGED <<tags, collections>>

addRecipe(recipe) ==
  /\ recipes' = addRecipeUpdater(recipes, recipe)
  /\ tags' = registerTagsUpdater(tags, newTags(recipe.tags, renderedTags))
  /\ UNCHANGED <<books, collections>>

updateRecipe(recipe) ==
  /\ recipes' = updateRecipeUpdater(recipes, recipe)
  /\ tags' = registerTagsUpdater(tags, newTags(recipe.tags, renderedTags))
  /\ UNCHANGED <<books, collections>>

deleteRecipe(recipeId) ==
  /\ recipes' = deleteRecipeUpdater(recipes, recipeId)
  /\ UNCHANGED <<books, tags, collections>>

toggleFavorite(recipeId) ==
  /\ recipes' = toggleFavoriteUpdater(recipes, recipeId)
  /\ UNCHANGED <<books, tags, collections>>

addTag(tag) ==
  /\ tags' = addTagUpdater(tags, renderedTags, tag)
  /\ UNCHANGED <<books, recipes, collections>>

addCollection(collection) ==
  /\ collections' = addCollectionUpdater(collections, collection)
  /\ UNCHANGED <<books, recipes, tags>>

updateCollection(collection) ==
  /\ collections' = updateCollectionUpdater(collections, collection)
  /\ UNCHANGED <<books, recipes, tags>>

deleteCollection(collectionId) ==
  /\ collections' = deleteCollectionUpdater(collections, collectionId)
  /\ UNCHANGED <<books, recipes, tags>>

(* --------------------------- input domains ---------------------------- *)

tagX == <<"x">>

tagY == <<"y">>

tagPlat == <<"p", "l", "a", "t">>

tagDessert == <<"d", "e", "s", "s", "e", "r", "t">>

tagFacile == <<"f", "a", "c", "i", "l", "e">>

\* ids passed to the by-id operations: seeded ids and one that names nothing
BookIdInputs == {<<"1">>, <<"2">>, <<"9">>}

RecipeIdInputs == {<<"1">>, <<"3">>, <<"9">>}

CollectionIdInputs == {<<"1">>, <<"9">>}

\* field.trim() || undefined
textOrUndefined(s) == IF trim(s) = <<>> THEN None ELSE Some(trim(s))

\* useState(editingBook?.field || ''): the text a form field starts with
formText(o) == IF Truthy(o) THEN o[1] ELSE <<>>

\* useState(editingBook?.year?.toString() || '')
yearText(o) == IF o = None THEN <<>> ELSE numToString(o[1])

\* AddBookScreen: the seven fields of the form as the screen is mounted, on
\* the book editingBook or, with None, on no book.
AddBookScreen_form(editingBook) ==
  IF editingBook = None
  THEN [title |-> <<>>, author |-> <<>>, pseudonym |-> <<>>, editor |-> <<>>,
        year |-> <<>>, category |-> <<>>, coverImage |-> <<>>]
  ELSE [title |-> editingBook[1].title,
        author |-> editingBook[1].author,
        pseudonym |-> formText(editingBook[1].pseudonym),
        editor |-> formText(editingBook[1].editor),
        year |-> yearText(editingBook[1].year),
        category |-> formText(editingBook[1].category),
        coverImage |-> formText(editingBook[1].coverImage)]

\* forms filled in by the user: the add form with a title and an author typed
BookForms ==
  { [AddBookScreen_form(None) EXCEPT !.title = <<"\r", "U+2003">>, !.author = <<"X">>],
    [AddBookScreen_form(None) EXCEPT !.title = <<"N", " ">>],
    [AddBookScreen_form(None) EXCEPT !.title = <<"N", " ">>, !.author = <<"X">>] }

\* the form opened on seeded book 2, with a title and an author typed, and
\* with a year or a category typed as well
BookEditForms ==
  LET opened == AddBookScreen_form(Some(INITIAL_BOOKS[2]))
  IN { [opened EXCEPT !.title = <<" ">>],
       [opened EXCEPT !.title = <<"N", " ">>, !.author = <<"X">>],
       [opened EXCEPT !.title = <<"N">>, !.author = <<"X">>, !.year = <<" ", "-", "5", "a">>,
                      !.category = <<" ">>],
       [opened EXCEPT !.title = <<"N">>, !.author = <<"X">>, !.year = <<"y">>] }

\* the route parameter bookId of AddBookScreen: a seeded book, no book
BookRoutes == {Some(<<"2">>), Some(<<"9">>)}

RecipeForms ==
  { [name |-> <<" ">>, selectedBookId |-> None, selectedTags |-> <<>>,
     notes |-> <<>>],
    [name |-> <<"R">>, selectedBookId |-> None, selectedTags |-> <<tagFacile, tagX>>,
     notes |-> <<"n", " ">>],
    [name |-> <<"R", " ">>, selectedBookId |-> Some(<<"2">>), selectedTags |-> <<tagX>>,
     notes |-> <<>>] }

CollectionForms ==
  { [newCollectionName |-> <<>>, selectedTags |-> <<tagX>>],
    [newCollectionName |-> <<"C">>, selectedTags |-> <<>>],
    [newCollectionName |-> <<"C">>, selectedTags |-> <<tagX, tagDessert>>] }

TagInputs == {tagX, tagPlat}

\* full records passed to the update operations
BookInputs ==
  { [INITIAL_BOOKS[1] EXCEPT !.title = <<"Z">>],
    [INITIAL_BOOKS[1] EXCEPT !.id = <<"9">>, !.title = <<"Z">>] }

\* a record passed to addBook by a caller that validates nothing: the title
\* and the author are empty strings
RawBookInputs ==
  { [id |-> <<"7">>, title |-> <<>>, author |-> <<>>, pseudonym |-> None,
     editor |-> None, year |-> None, coverImage |-> None, category |-> None,
     createdAt |-> 0] }

RecipeInputs ==
  { [INITIAL_RECIPES[1] EXCEPT !.tags = @ \o <<tagX>>],
    [INITIAL_RECIPES[3] EXCEPT !.name = <<"B">>, !.tags = <<tagY>>, !.bookId = None],
    [INITIAL_RECIPES[1] EXCEPT !.id = <<"9">>, !.tags = <<tagY>>] }

CollectionInputs ==
  { [INITIAL_COLLECTIONS[1] EXCEPT !.tags = <<tagPlat, tagX>>],
    [INITIAL_COLLECTIONS[1] EXCEPT !.id = <<"9">>, !.tags = <<tagPlat>>] }

(* ------------------------------ actions ------------------------------- *)

\* A handler is called: the handler called before has run to its end (the
\* part after an await is a microtask, which runs before the next event) and
\* no confirmation dialog, which is modal, is open.
Step == last.awaiting = "" /\ last.dialog = "" /\ steps' = steps + 1

\* A call that has run to its end, alert being the alert it showed.
Call(op, arg, ret, alert) ==
  [op |-> op, arg |-> arg, ret |-> ret, alert |-> alert, awaiting |-> "", dialog |-> ""]

\* A call that stands at `await op(arg)`: the store operation has been
\* called, the alert is shown when the handler resumes.
CallAwaiting(op, arg, ret, alert) ==
  [op |-> op, arg |-> arg, ret |-> ret, alert |-> "", awaiting |-> alert, dialog |-> ""]

\* A handler that has opened its confirmation dialog (Alert.alert with the
\* buttons Annuler and Supprimer) and returned.
CallDialog(op, arg, title) ==
  [op |-> op, arg |-> arg, ret |-> None, alert |-> title, awaiting |-> "", dialog |-> op]

\* The clock values that a later read of the clock can give.
ClockFrom(t) == t..(Epoch0 + MaxTicks)

\* The clock advances.
Tick ==
  /\ now < Epoch0 + MaxTicks
  /\ now' = now + 1
  /\ UNCHANGED <<books, recipes, tags, collections, rendered, steps, last, input, theme>>

\* React re-renders AppProvider: the handlers are re-created over the new state.
Render ==
  /\ rendered # store
  /\ renderedBooks' = books
  /\ renderedRecipes' = recipes
  /\ renderedTags' = tags
  /\ renderedCollections' = collections
  /\ UNCHANGED <<books, recipes, tags, collections, now, steps, last, input, theme>>

\* AddBookScreen.handleSave.  editBookId is the route parameter (None on the
\* add form) and form the seven fields as the user left them.  editingBook and
\* isEditing are those of the last render.  With a book to edit the record
\* keeps its id and createdAt; without, the id is Date.now() and createdAt a
\* second reading of the clock, new Date(), equal or later.  The success
\* alert follows `await updateBook(book)` or `await addBook(book)`.
AddBookScreen_handleSave(editBookId, form) ==
  /\ Step
  /\ LET editingBook == IF Truthy(editBookId) THEN findById(renderedBooks, editBookId[1])
                        ELSE None
         isEditing == editingBook # None
     IN IF trim(form.title) = <<>>
        THEN /\ UNCHANGED <<store, now>>
             /\ last' = Call("AddBookScreen.handleSave", <<form.title, form.author>>, None,
                             "Le titre est obligatoire")
        ELSE IF trim(form.author) = <<>>
        THEN /\ UNCHANGED <<store, now>>
             /\ last' = Call("AddBookScreen.handleSave", <<form.title, form.author>>, None,
                             "L'auteur est obligatoire")
        ELSE \E newDate \in (IF isEditing THEN {now} ELSE ClockFrom(now)) :
               LET book == [id |-> IF isEditing THEN editingBook[1].id ELSE numToString(Number(now)),
                            title |-> trim(form.title),
                            author |-> trim(form.author),
                            pseudonym |-> textOrUndefined(form.pseudonym),
                            editor |-> textOrUndefined(form.editor),
                            year |-> IF trim(form.year) # <<>> THEN Some(parseInt(form.year))
                                     ELSE None,
                            category |-> textOrUndefined(form.category),
                            coverImage |-> textOrUndefined(form.coverImage),
                            createdAt |-> IF isEditing THEN editingBook[1].createdAt
                                          ELSE newDate]
               IN /\ now' = newDate
                  /\ IF isEditing
                     THEN /\ updateBook(book)
                          /\ last' = CallAwaiting("updateBook", book, None,
                                                  "Le livre a été mis à jour")
                     ELSE /\ addBook(book)
                          /\ last' = CallAwaiting("addBook", book, None,
                                                  "Le livre a été ajouté")
  /\ UNCHANGED <<rendered, input, theme>>

\* The handler that stands at its await resumes and shows its alert.
HandlerResumes ==
  /\ last.awaiting # ""
  /\ last' = [last EXCEPT !.alert = last.awaiting, !.awaiting = ""]
  /\ UNCHANGED <<books, recipes, tags, collections, rendered, now, steps, input, theme>>

\* addBook called directly on the context value.
AddBook(book) ==
  /\ Step
  /\ addBook(book)
  /\ last' = Call("addBook", book, None, "")
  /\ UNCHANGED <<rendered, now, input, theme>>

UpdateBook(book) ==
  /\ Step
  /\ updateBook(book)
  /\ last' = Call("updateBook", book, None, "")
  /\ UNCHANGED <<rendered, now, input, theme>>

\* `await deleteBook(bookId)` as its caller in BookDetailScreen awaits it: the
\* second alert is shown, once the caller resumes, only when the returned
\* count is positive.
AwaitDeleteBook(bookId) ==
  /\ deleteBook(bookId)
  /\ LET detachedCount == detachedCountAtReturn(recipes, bookId)
     IN last' = CallAwaiting("deleteBook", bookId, Some(detachedCount),
                             IF detachedCount > 0 THEN "Livre supprimé" ELSE "")
  /\ UNCHANGED <<rendered, now, input, theme>>

\* deleteBook called on the context value.
DeleteBook(bookId) ==
  /\ Step
  /\ AwaitDeleteBook(bookId)

\* AddRecipeScreen.handleSave.  selectedBookId is the book picked when the
\* form was filled in: the handler does not look it up in the book list.  The
\* id is Date.now() and createdAt a second reading of the clock; the success
\* alert follows `await addRecipe(recipe)`.
AddRecipeScreen_handleSave(name, selectedBookId, selectedTags, notes) ==
  /\ Step
  /\ IF trim(name) = <<>>
     THEN /\ UNCHANGED <<store, now>>
          /\ last' = Call("AddRecipeScreen.handleSave",
                          <<name, selectedBookId, selectedTags>>, None,
                          "Le nom de la recette est obligatoire")
     ELSE \E newDate \in ClockFrom(now) :
            LET recipe == [id |-> numToString(Number(now)),
                           name |-> trim(name),
                           bookId |-> selectedBookId,
                           tags |-> selectedTags,
                           notes |-> trim(notes),
                           isFavorite |-> FALSE,
                           recipeImage |-> None,
                           createdAt |-> newDate]
            IN /\ addRecipe(recipe)
               /\ now' = newDate
               /\ last' = CallAwaiting("addRecipe", recipe, None,
                                       "La recette a été ajoutée")
  /\ UNCHANGED <<rendered, input, theme>>

UpdateRecipe(recipe) ==
  /\ Step
  /\ updateRecipe(recipe)
  /\ last' = Call("updateRecipe", recipe, None, "")
  /\ UNCHANGED <<rendered, now, input, theme>>

DeleteRecipe(recipeId) ==
  /\ Step
  /\ deleteRecipe(recipeId)
  /\ last' = Call("deleteRecipe", recipeId, None, "")
  /\ UNCHANGED <<rendered, now, input, theme>>

ToggleFavorite(recipeId) ==
  /\ Step
  /\ toggleFavorite(recipeId)
  /\ last' = Call("toggleFavorite", recipeId, None, "")
  /\ UNCHANGED <<rendered, now, input, theme>>

AddTag(tag) ==
  /\ Step
  /\ addTag(tag)
  /\ last' = Call("addTag", tag, None, "")
  /\ UNCHANGED <<rendered, now, input, theme>>

\* CollectionsScreen.handleCreateCollection: the id is Date.now() and
\* createdAt a second reading of the clock, new Date().
CollectionsScreen_handleCreateCollection(newCollectionName, selectedTags) ==
  /\ Step
  /\ IF trim(newCollectionName) = <<>>
     THEN /\ UNCHANGED <<store, now>>
          /\ last' = Call("CollectionsScreen.handleCreateCollection",
                          <<newCollectionName, selectedTags>>, None,
                          "Le nom de la collection est obligatoire")
     ELSE IF Len(selectedTags) = 0
     THEN /\ UNCHANGED <<store, now>>
          /\ last' = Call("CollectionsScreen.handleCreateCollection",
                          <<newCollectionName, selectedTags>>, None,
                          "Veuillez sélectionner au moins un tag")
     ELSE \E newDate \in ClockFrom(now) :
            LET newCollection == [id |-> numToString(Number(now)),
                                  name |-> trim(newCollectionName),
                                  tags |-> selectedTags,
                                  createdAt |-> newDate]
            IN /\ addCollection(newCollection)
               /\ now' = newDate
               /\ last' = Call("addCollection", newCollection, None, "")
  /\ UNCHANGED <<rendered, input, theme>>

UpdateCollection(collection) ==
  /\ Step
  /\ updateCollection(collection)
  /\ last' = Call("updateCollection", collection, None, "")
  /\ UNCHANGED <<rendered, now, input, theme>>

DeleteCollection(collectionId) ==
  /\ Step
  /\ deleteCollection(collectionId)
  /\ last' = Call("deleteCollection", collectionId, None, "")
  /\ UNCHANGED <<rendered, now, input, theme>>

\* The clock, a render, a handler resuming after its await, and the calls on
\* the store: the eleven operations of the context value, three of them
\* through the screen handler that builds their argument.
Next ==
  \/ Tick
  \/ Render
  \/ HandlerResumes
  \/ steps < MaxSteps /\ \E form \in BookForms : AddBookScreen_handleSave(None, form)
  \/ steps < MaxSteps /\ \E book \in RawBookInputs : AddBook(book)
  \/ steps < MaxSteps /\ \E book \in BookInputs : UpdateBook(book)
  \/ steps < MaxSteps /\ \E bookId \in BookIdInputs : DeleteBook(bookId)
  \/ steps < MaxSteps /\ \E form \in RecipeForms :
       AddRecipeScreen_handleSave(form.name, form.selectedBookId, form.selectedTags,
                                  form.notes)
  \/ steps < MaxSteps /\ \E recipe \in RecipeInputs : UpdateRecipe(recipe)
  \/ steps < MaxSteps /\ \E recipeId \in RecipeIdInputs : DeleteRecipe(recipeId)
  \/ steps < MaxSteps /\ \E recipeId \in RecipeIdInputs : ToggleFavorite(recipeId)
  \/ steps < MaxSteps /\ \E tag \in TagInputs : AddTag(tag)
  \/ steps < MaxSteps /\ \E form \in CollectionForms :
       CollectionsScreen_handleCreateCollection(form.newCollectionName, form.selectedTags)
  \/ steps < MaxSteps /\ \E collection \in CollectionInputs : UpdateCollection(collection)
  \/ steps < MaxSteps /\ \E collectionId \in CollectionIdInputs : DeleteCollection(collectionId)

Spec == Init /\ [][Next]_vars

(* ------------------- collection membership (screen) ------------------- *)

\* Faulty variant of tagsSome: every tag of the recipe must be a tag of the
\* collection (AND instead of OR).
RECURSIVE tagsEvery(_, _)
tagsEvery(recipeTags, collectionTags) ==
  IF recipeTags = <<>> THEN TRUE
  ELSE IF ~arrayIncludes(collectionTags, Head(recipeTags)) THEN FALSE
  ELSE tagsEvery(Tail(recipeTags), collectionTags)

\* recipe.tags.some(tag => collection.tags.includes(tag))
RECURSIVE tagsSome(_, _)
tagsSome(recipeTags, collectionTags) ==
  IF recipeTags = <<>> THEN FALSE
  ELSE IF arrayIncludes(collectionTags, Head(recipeTags)) THEN TRUE
  ELSE tagsSome(Tail(recipeTags), collectionTags)

\* Faulty variant of filteredRecipes: a collection with the tag favoris also
\* holds the recipes marked as favorites.
filteredRecipesWithFavorites(recipeList, collection) ==
  filterIdx(recipeList,
            {i \in 1..Len(recipeList) :
               \/ tagsSome(recipeList[i].tags, collection.tags)
               \/ /\ recipeList[i].isFavorite
                  /\ arrayIncludes(collection.tags, <<"f", "a", "v", "o", "r", "i", "s">>)}, 1)

\* CollectionDetailScreen: recipes.filter(recipe => recipe.tags.some(...))
filteredRecipes(recipeList, collection) ==
  filterIdx(recipeList,
            {i \in 1..Len(recipeList) : tagsSome(recipeList[i].tags, collection.tags)}, 1)

(* ------------------------- claims on the store ------------------------ *)

Range(s) == {s[i] : i \in 1..Len(s)}

\* The step just taken is a handler call that reached store operation op.
Called(op) == steps' = steps + 1 /\ last'.op = op

RefCount(recipeList, bookId) ==
  Cardinality({i \in 1..Len(recipeList) : recipeList[i].bookId = Some(bookId)})

\* C1: after deleteBook(b) no book has id b, no recipe has bookId b, and every
\* recipe that referenced b is still at its place with bookId absent: the
\* number of recipes is unchanged.
C1_CascadeOnDeleteBook ==
  [][Called("deleteBook") =>
       LET b == last'.arg
       IN /\ \A i \in 1..Len(books') : books'[i].id # b
          /\ \A i \in 1..Len(recipes') : recipes'[i].bookId # Some(b)
          /\ Len(recipes') = Len(recipes)
          /\ \A i \in 1..Len(recipes) :
               recipes[i].bookId = Some(b) =>
                 /\ recipes'[i].id = recipes[i].id
                 /\ recipes'[i].name = recipes[i].name
                 /\ recipes'[i].bookId = None]_vars

\* C1 witness: deleteBook('1') ran on the seeded store; the two recipes that
\* referenced book 1 are still there, as personal recipes.
C1_Witness ==
  /\ steps = 1
  /\ last.op = "deleteBook"
  /\ last.arg = <<"1">>
  /\ Len(recipes) = 5
  /\ recipes[1].bookId = None
  /\ recipes[5].bookId = None
  /\ \A i \in 1..Len(books) : books[i].id # <<"1">>

\* C2 (as claimed): deleteBook(b) returns the number of recipes whose bookId
\* equalled b immediately before the call.
C2_ReturnsDetachedCount ==
  [][Called("deleteBook") => last'.ret = Some(RefCount(recipes, last'.arg))]_vars

\* C3 (as claimed): no two records of the same kind share an id.
C3_IdsUnique ==
  /\ \A i, j \in 1..Len(books) : i # j => books[i].id # books[j].id
  /\ \A i, j \in 1..Len(recipes) : i # j => recipes[i].id # recipes[j].id
  /\ \A i, j \in 1..Len(collections) : i # j => collections[i].id # collections[j].id

\* C4: after addRecipe(r) or updateRecipe(r) the registry contains every tag
\* it contained before and every tag of r.
C4_TagRegistryMonotone ==
  [][(Called("addRecipe") \/ Called("updateRecipe")) =>
       /\ Range(tags) \subseteq Range(tags')
       /\ Range(last'.arg.tags) \subseteq Range(tags')]_vars

\* C4 witness: a recipe carrying the unseen tag x was added and x is registered.
C4_Witness ==
  /\ last.op = "addRecipe"
  /\ arrayIncludes(last.arg.tags, tagX)
  /\ tagX \in Range(tags)
  /\ tagX \notin Range(INITIAL_TAGS)

\* C5: the recipes shown for a collection are exactly the recipes of the
\* current list, in order, that have at least one tag equal to a tag of the
\* collection.
C5_MembershipIsOr ==
  \A k \in 1..Len(collections) :
    filteredRecipes(recipes, collections[k]) =
      SelectSeq(recipes,
                LAMBDA r : Range(r.tags) \cap Range(collections[k].tags) # {})

\* C5 witness: the recipe just added with tags facile and x (but not rapide)
\* is shown in the seeded collection 'Repas Rapides' (facile OR rapide),
\* without any collection operation.
C5_Witness ==
  /\ last.op = "addRecipe"
  /\ tagFacile \in Range(last.arg.tags)
  /\ \E k \in 1..Len(collections) :
       /\ collections[k] = INITIAL_COLLECTIONS[2]
       /\ last.arg \in Range(filteredRecipes(recipes, collections[k]))
       /\ Len(filteredRecipes(recipes, collections[k])) < Len(recipes)

\* C6: a second toggleFavorite(id) right after toggleFavorite(id) gives back
\* the recipes as they were before the first, the rest of the store being
\* untouched by both.
C6_DoubleToggleIdentity ==
  [][Called("toggleFavorite") =>
       /\ toggleFavoriteUpdater(recipes', last'.arg) = recipes
       /\ UNCHANGED <<books, tags, collections>>]_vars

\* C6 witness: toggleFavorite('1') flipped the seeded favourite recipe 1.
C6_Witness ==
  /\ steps = 1
  /\ last.op = "toggleFavorite"
  /\ last.arg = <<"1">>
  /\ recipes[1].id = <<"1">>
  /\ recipes[1].isFavorite = FALSE

\* The step just taken called a by-id operation with an id that matched no
\* record of its kind.
NotFoundCall ==
  \/ (Called("updateBook") /\ ~HasId(books, last'.arg.id))
  \/ (Called("deleteBook") /\ ~HasId(books, last'.arg))
  \/ (Called("updateRecipe") /\ ~HasId(recipes, last'.arg.id))
  \/ (Called("deleteRecipe") /\ ~HasId(recipes, last'.arg))
  \/ (Called("toggleFavorite") /\ ~HasId(recipes, last'.arg))
  \/ (Called("updateCollection") /\ ~HasId(collections, last'.arg.id))
  \/ (Called("deleteCollection") /\ ~HasId(collections, last'.arg))

\* C7 (as claimed): update, delete and toggle with an id that matches no
\* record of the kind leave the whole store unchanged.
C7_NotFoundIsNoOp == [][NotFoundCall => UNCHANGED store]_vars

(* ------------------------ category suggestion ------------------------- *)

catCuisineGenerale == <<"C", "u", "i", "s", "i", "n", "e", " ", "g", "é", "n", "é", "r", "a", "l", "e">>

catPatisserie == <<"P", "â", "t", "i", "s", "s", "e", "r", "i", "e">>

catGastronomie == <<"G", "a", "s", "t", "r", "o", "n", "o", "m", "i", "e">>

catVegetarien == <<"V", "é", "g", "é", "t", "a", "r", "i", "e", "n">>

catCuisineRapide == <<"C", "u", "i", "s", "i", "n", "e", " ", "r", "a", "p", "i", "d", "e">>

\* Confidences are in hundredths: 0.7 is 70.
Suggestion(category, confidence) == [category |-> category, confidence |-> confidence]

\* The array literal suggestions starts from.
baseSuggestions ==
  << Suggestion(catCuisineGenerale, 70),
     Suggestion(catPatisserie, 50),
     Suggestion(catGastronomie, 40) >>

\* Faulty variant of overriddenSuggestions: three independent ifs instead of
\* the else-if chain, so the last matching group wins.
overriddenSuggestionsLastWins(title) ==
  LET lowerTitle == toLowerCase(title)
      s1 == IF \/ includes(lowerTitle, <<"p", "â", "t", "i", "s", "s", "e", "r", "i", "e">>)
               \/ includes(lowerTitle, <<"d", "e", "s", "s", "e", "r", "t">>)
               \/ includes(lowerTitle, <<"g", "â", "t", "e", "a", "u">>)
            THEN [baseSuggestions EXCEPT ![1] = Suggestion(catPatisserie, 90)]
            ELSE baseSuggestions
      s2 == IF \/ includes(lowerTitle, <<"v", "é", "g", "é">>)
               \/ includes(lowerTitle, <<"v", "e", "g", "a", "n">>)
            THEN [s1 EXCEPT ![1] = Suggestion(catVegetarien, 90)]
            ELSE s1
  IN IF \/ includes(lowerTitle, <<"r", "a", "p", "i", "d", "e">>)
        \/ includes(lowerTitle, <<"s", "i", "m", "p", "l", "e">>)
     THEN [s2 EXCEPT ![1] = Suggestion(catCuisineRapide, 90)]
     ELSE s2

\* The else-if chain on lowerTitle: at most one override of suggestions[0].
overriddenSuggestions(title) ==
  LET lowerTitle == toLowerCase(title)
  IN IF \/ includes(lowerTitle, <<"p", "â", "t", "i", "s", "s", "e", "r", "i", "e">>)
        \/ includes(lowerTitle, <<"d", "e", "s", "s", "e", "r", "t">>)
        \/ includes(lowerTitle, <<"g", "â", "t", "e", "a", "u">>)
     THEN [baseSuggestions EXCEPT ![1] = Suggestion(catPatisserie, 90)]
     ELSE IF \/ includes(lowerTitle, <<"v", "é", "g", "é">>)
             \/ includes(lowerTitle, <<"v", "e", "g", "a", "n">>)
     THEN [baseSuggestions EXCEPT ![1] = Suggestion(catVegetarien, 90)]
     ELSE IF \/ includes(lowerTitle, <<"r", "a", "p", "i", "d", "e">>)
             \/ includes(lowerTitle, <<"s", "i", "m", "p", "l", "e">>)
     THEN [baseSuggestions EXCEPT ![1] = Suggestion(catCuisineRapide, 90)]
     ELSE baseSuggestions

\* Faulty variant of compareConfidence: the operands are swapped.
compareConfidenceAscending(a, b) == a.confidence - b.confidence

\* The comparator (a, b) => b.confidence - a.confidence
compareConfidence(a, b) == b.confidence - a.confidence

\* Array.prototype.sort with compareConfidence: a stable sort, written as a
\* stable insertion sort (x goes after every element that does not compare
\* greater than it).
RECURSIVE insertSorted(_, _)
insertSorted(sorted, x) ==
  IF sorted = <<>> THEN <<x>>
  ELSE IF compareConfidence(Head(sorted), x) <= 0
       THEN <<Head(sorted)>> \o insertSorted(Tail(sorted), x)
       ELSE <<x>> \o sorted

RECURSIVE sortSuggestions(_)
sortSuggestions(arr) ==
  IF arr = <<>> THEN <<>>
  ELSE insertSorted(sortSuggestions(SubSeq(arr, 1, Len(arr) - 1)), arr[Len(arr)])

\* Faulty variant of suggestBookCategory: the keywords are looked up in the
\* pseudonym when there is one.
suggestBookCategoryFromPseudonym(title, author, pseudonym) ==
  sortSuggestions(overriddenSuggestions(IF pseudonym # <<>> THEN pseudonym
                                        ELSE title))

\* suggestBookCategory(title, author, pseudonym)
suggestBookCategory(title, author, pseudonym) ==
  sortSuggestions(overriddenSuggestions(title))

\* Length of the titles examined, in words.
MaxWords == 2

TitleWords ==
  { <<"P", "Â", "T", "I", "S", "S", "E", "R", "I", "E", " ">>,
    <<"p", "a", "t", "i", "s", "s", "e", "r", "i", "e">>,
    <<"D", "e", "s", "s", "e", "r", "t">>,
    <<"g", "â", "t", "e", "a", "u">>,
    <<" ", "V", "é", "g", "é">>,
    <<"V", "E", "G", "A", "N">>,
    <<"R", "a", "p", "i", "d", "e">>,
    <<"s", "i", "m", "p", "l", "e", " ">>,
    <<"P", "l", "a", "i", "n", " ", "B", "o", "o", "k">> }

RECURSIVE TitlesOf(_)
TitlesOf(n) ==
  IF n = 0 THEN {<<>>}
  ELSE TitlesOf(n - 1) \cup {t \o w : t \in TitlesOf(n - 1), w \in TitleWords}

SuggestInputs ==
  [title : TitlesOf(MaxWords) \cup {<<"L", "a", " ", "P", "â", "t", "i", "s", "s", "e", "r", "i", "e", " ", "M", "o", "d", "e", "r", "n", "e">>},
   author : {<<"X">>, <<"Y">>, <<" ">>},
   pseudonym : {<<>>, <<"p">>}]

\* The suggestion is asked with the seeded books or after all were deleted.
InitSuggest ==
  /\ books \in {INITIAL_BOOKS, <<>>}
  /\ recipes = INITIAL_RECIPES
  /\ tags = INITIAL_TAGS
  /\ collections = INITIAL_COLLECTIONS
  /\ renderedBooks = books
  /\ renderedRecipes = recipes
  /\ renderedTags = tags
  /\ renderedCollections = collections
  /\ now = Epoch0
  /\ steps = 0
  /\ last = NoCall
  /\ input \in SuggestInputs
  /\ theme = ThemeLoaded

\* AddBookScreen.getSuggestions calls suggestBookCategory on the form fields
\* (three strings) when title and author are not blank, and returns [] without
\* calling it otherwise.
SuggestBookCategory ==
  /\ last = NoCall
  /\ last' = IF trim(input.title) # <<>> /\ trim(input.author) # <<>>
             THEN Call("suggestBookCategory", input,
                       suggestBookCategory(input.title, input.author, input.pseudonym),
                       "")
             ELSE Call("AddBookScreen.getSuggestions", input, <<>>, "")
  /\ UNCHANGED <<books, recipes, tags, collections, rendered, now, steps, input, theme>>

NextSuggest == SuggestBookCategory

SpecSuggest == InitSuggest /\ [][NextSuggest]_vars

(* --------------------- claims on the suggestion ----------------------- *)

\* kw occurs in the lower-cased title: stated position by position.
OccursLowered(title, kw) ==
  \E k \in 0..(Len(title) - Len(kw)) :
    \A j \in 1..Len(kw) : lowerChar(title[k + j]) = kw[j]

OccursAny(title, kws) == \E kw \in kws : OccursLowered(title, kw)

KeywordsPatisserie == {<<"p", "â", "t", "i", "s", "s", "e", "r", "i", "e">>, <<"d", "e", "s", "s", "e", "r", "t">>, <<"g", "â", "t", "e", "a", "u">>}

KeywordsVegetarien == {<<"v", "é", "g", "é">>, <<"v", "e", "g", "a", "n">>}

KeywordsRapide == {<<"r", "a", "p", "i", "d", "e">>, <<"s", "i", "m", "p", "l", "e">>}

\* C8: the result has exactly 3 pairs, in non-increasing order of
\* confidence; it is a reordering of the list built before the sort, and two
\* pairs of equal confidence keep the order they had in that list.
C8_ThreeSortedStable ==
  last.op = "suggestBookCategory" =>
    LET r == last.ret
        u == overriddenSuggestions(last.arg.title)
        pos(x) == CHOOSE p \in 1..Len(u) : u[p] = x
    IN /\ Len(r) = 3
       /\ \A i \in 1..3 : r[i].confidence \in {40, 50, 70, 90}
       /\ \A i, j \in 1..3 : i < j => r[i].confidence >= r[j].confidence
       /\ Range(r) = Range(u)
       /\ \A i, j \in 1..3 :
            (i < j /\ r[i].confidence = r[j].confidence) => pos(r[i]) < pos(r[j])

\* C8 witness: a suggestion was computed for a title with a keyword: the head
\* has confidence 0.9 and is followed by 0.5 and 0.4.
C8_Witness ==
  /\ last.op = "suggestBookCategory"
  /\ last.ret[1].confidence = 90
  /\ last.ret[2].confidence = 50
  /\ last.ret[3].confidence = 40

\* C9: without keyword the result is the baseline; otherwise the head is the
\* category of the earliest matching group, with confidence 0.9, followed by
\* (Pâtisserie, 0.5) and (Gastronomie, 0.4).
C9_FirstMatchOverride ==
  last.op = "suggestBookCategory" =>
    LET t == last.arg.title
        rest == << Suggestion(catPatisserie, 50), Suggestion(catGastronomie, 40) >>
    IN last.ret =
         IF OccursAny(t, KeywordsPatisserie)
         THEN <<Suggestion(catPatisserie, 90)>> \o rest
         ELSE IF OccursAny(t, KeywordsVegetarien)
         THEN <<Suggestion(catVegetarien, 90)>> \o rest
         ELSE IF OccursAny(t, KeywordsRapide)
         THEN <<Suggestion(catCuisineRapide, 90)>> \o rest
         ELSE <<Suggestion(catCuisineGenerale, 70)>> \o rest

\* C9 witness: the title holds a keyword of the third group before a keyword
\* of the first group (upper case in the title); the head is Pâtisserie.
C9_Witness ==
  /\ last.op = "suggestBookCategory"
  /\ last.arg.title = <<"s", "i", "m", "p", "l", "e", " ">> \o <<"P", "Â", "T", "I", "S", "S", "E", "R", "I", "E", " ">>
  /\ last.ret[1] = Suggestion(catPatisserie, 90)

(* ----------------------------- book search ---------------------------- *)

\* Faulty variant of bookMatches: the query is not lower-cased.
bookMatchesCaseSensitive(book, searchQuery) ==
  \/ includes(toLowerCase(book.title), searchQuery)
  \/ includes(toLowerCase(book.author), searchQuery)
  \/ (Truthy(book.pseudonym) /\ includes(toLowerCase(book.pseudonym[1]), searchQuery))
  \/ (Truthy(book.category) /\ includes(toLowerCase(book.category[1]), searchQuery))

\* BooksScreen: the predicate given to books.filter
bookMatches(book, searchQuery) ==
  \/ includes(toLowerCase(book.title), toLowerCase(searchQuery))
  \/ includes(toLowerCase(book.author), toLowerCase(searchQuery))
  \/ (Truthy(book.pseudonym)
        /\ includes(toLowerCase(book.pseudonym[1]), toLowerCase(searchQuery)))
  \/ (Truthy(book.category)
        /\ includes(toLowerCase(book.category[1]), toLowerCase(searchQuery)))

\* BooksScreen: filteredBooks = books.filter(...)
filteredBooks(bookList, searchQuery) ==
  filterIdx(bookList,
            {i \in 1..Len(bookList) : bookMatches(bookList[i], searchQuery)}, 1)

\* Length of the book lists examined.
MaxListLen == 2

\* Length of the queries examined, in characters.
MaxQueryLen == 2

SearchBooks ==
  { [id |-> <<"1">>, title |-> <<"A", "b">>, author |-> <<"c">>, pseudonym |-> None,
      editor |-> Some(<<"E", "d">>), year |-> Some(Number(2015)), coverImage |-> None,
      category |-> Some(<<"P", "â">>), createdAt |-> 1],
    [id |-> <<"2">>, title |-> <<"b">>, author |-> <<"C">>, pseudonym |-> Some(<<"a", "P">>),
      editor |-> Some(<<"q">>), year |-> None, coverImage |-> None,
      category |-> None, createdAt |-> 1],
    [id |-> <<"3">>, title |-> <<"T", "a", "r", "t", "e", "s">>, author |-> <<"U+0295", "U+03A3">>, pseudonym |-> Some(<<>>),
      editor |-> None, year |-> Some(Number(2022)), coverImage |-> None,
      category |-> Some(<<"P", "â", "t", "i", "s", "s", "e", "r", "i", "e">>), createdAt |-> 1],
    [id |-> <<"4">>, title |-> <<"P", "a", "i", "n">>, author |-> <<"U+011E", "U+03A3">>, pseudonym |-> None,
      editor |-> Some(<<"P", "â", "t", "i", "s", "s", "e", "r", "i", "e", " ", "É", "d", "i", "t", "i", "o", "n", "s">>), year |-> None, coverImage |-> None,
      category |-> Some(<<>>), createdAt |-> 1],
    INITIAL_BOOKS[2] }

QueryChars == {"a", "A", "b", "â", "Â", "p", "E", "2", " "}

RECURSIVE SeqsUpTo(_, _)
SeqsUpTo(S, n) ==
  IF n = 0 THEN {<<>>}
  ELSE SeqsUpTo(S, n - 1) \cup {Append(s, x) : s \in SeqsUpTo(S, n - 1), x \in S}

queryPatisserie == <<"P", "Â", "T", "I", "S", "S", "E", "R", "I", "E">>

QueryInputs ==
  SeqsUpTo(QueryChars, MaxQueryLen)
    \cup {queryPatisserie, <<"2", "0", "1", "5">>, <<"U+0130">>, <<"U+0152">>,
          <<"U+011F">>, <<"U+03A3">>, <<"U+03C3">>, <<"U+03C2">>}

InitSearch ==
  /\ books \in SeqsUpTo(SearchBooks, MaxListLen)
  /\ recipes = INITIAL_RECIPES
  /\ tags = INITIAL_TAGS
  /\ collections = INITIAL_COLLECTIONS
  /\ renderedBooks = books
  /\ renderedRecipes = recipes
  /\ renderedTags = tags
  /\ renderedCollections = collections
  /\ now = Epoch0
  /\ steps = 0
  /\ last = NoCall
  /\ input \in QueryInputs
  /\ theme = ThemeLoaded

\* BooksScreen renders the book list for the search query typed so far.
BooksScreen_filteredBooks ==
  /\ last = NoCall
  /\ last' = Call("filteredBooks", input, filteredBooks(books, input), "")
  /\ UNCHANGED <<books, recipes, tags, collections, rendered, now, steps, input, theme>>

NextSearch == BooksScreen_filteredBooks

SpecSearch == InitSearch /\ [][NextSearch]_vars

(* ----------------------- claims on book search ------------------------ *)

\* The lower-cased sub occurs in the lower-cased s: stated position by
\* position on the two lower-cased strings.
IsSubstringLowered(sub, s) ==
  LET lowerSub == toLowerCase(sub)
      lowerS == toLowerCase(s)
  IN \E k \in 0..(Len(lowerS) - Len(lowerSub)) :
       \A j \in 1..Len(lowerSub) : lowerS[k + j] = lowerSub[j]

\* The four searched fields of a book that are present.
SearchedFields(b) ==
  {b.title, b.author}
    \cup (IF b.pseudonym # None THEN {b.pseudonym[1]} ELSE {})
    \cup (IF b.category # None THEN {b.category[1]} ELSE {})

\* C10: the filtered list is exactly the books, in order, for which the
\* lower-cased query is a substring of the lower-cased title, author,
\* pseudonym or category; the empty query keeps every book; the editor and
\* the year never make a book match.
C10_BookSearch ==
  last.op = "filteredBooks" =>
    /\ last.ret = SelectSeq(books,
                            LAMBDA b : \E f \in SearchedFields(b) :
                                         IsSubstringLowered(last.arg, f))
    /\ (last.arg = <<>> => last.ret = books)

\* C10 witness: the query PÂTISSERIE finds the book whose only matching field
\* is its category Pâtisserie, and leaves out a book of the list whose editor
\* alone holds the word.
C10_Witness ==
  /\ last.op = "filteredBooks"
  /\ last.arg = queryPatisserie
  /\ Len(books) = 2
  /\ Len(last.ret) = 1
  /\ last.ret[1].title = <<"T", "a", "r", "t", "e", "s">>
  /\ last.ret[1].category = Some(catPatisserie)
  /\ \E i \in 1..2 : books[i].editor = Some(<<"P", "â", "t", "i", "s", "s", "e", "r", "i", "e", " ", "É", "d", "i", "t", "i", "o", "n", "s">>)

(* ---------------------------- recipe search --------------------------- *)

\* recipe.tags.some(tag => tag.toLowerCase().includes(searchQuery.toLowerCase()))
RECURSIVE tagsSomeIncludes(_, _)
tagsSomeIncludes(recipeTags, searchQuery) ==
  IF recipeTags = <<>> THEN FALSE
  ELSE IF includes(toLowerCase(Head(recipeTags)), toLowerCase(searchQuery)) THEN TRUE
  ELSE tagsSomeIncludes(Tail(recipeTags), searchQuery)

\* Faulty variant of recipeMatches: the favorites filter is not applied.
recipeMatchesIgnoringFavorites(recipe, searchQuery, showFavoritesOnly) ==
  \/ includes(toLowerCase(recipe.name), toLowerCase(searchQuery))
  \/ tagsSomeIncludes(recipe.tags, searchQuery)

\* RecipesScreen: the predicate given to recipes.filter
recipeMatches(recipe, searchQuery, showFavoritesOnly) ==
  LET matchesSearch ==
        IF includes(toLowerCase(recipe.name), toLowerCase(searchQuery))
        THEN TRUE
        ELSE tagsSomeIncludes(recipe.tags, searchQuery)
      matchesFavorites == IF ~showFavoritesOnly THEN TRUE ELSE recipe.isFavorite
  IN matchesSearch /\ matchesFavorites

\* RecipesScreen: filteredRecipes = recipes.filter(...)
searchedRecipes(recipeList, searchQuery, showFavoritesOnly) ==
  filterIdx(recipeList,
            {i \in 1..Len(recipeList) :
               recipeMatches(recipeList[i], searchQuery, showFavoritesOnly)}, 1)

recipeTarte ==
  [id |-> <<"7">>, name |-> <<"T", "a", "r", "t", "e">>, bookId |-> None,
   tags |-> <<tagDessert, <<"a">>>>, notes |-> <<>>, isFavorite |-> FALSE,
   recipeImage |-> None, createdAt |-> 1]

recipeAb ==
  [id |-> <<"8">>, name |-> <<"A", "b">>, bookId |-> Some(<<"2">>),
   tags |-> <<<<"D", "e">>>>, notes |-> <<>>, isFavorite |-> TRUE,
   recipeImage |-> None, createdAt |-> 1]

SearchRecipes ==
  { recipeTarte,
    recipeAb,
    [id |-> <<"6">>, name |-> <<"b">>, bookId |-> None, tags |-> <<<<"U+015E">>>>,
     notes |-> <<"d", "e", " ", "a">>, isFavorite |-> FALSE,
     recipeImage |-> None, createdAt |-> 1],
    INITIAL_RECIPES[1] }

RecipeQueryChars == {"a", "B", "d", "E", "T", " "}

queryDessert == <<"D", "E", "S", "S", "E", "R", "T">>

RecipeQueryInputs ==
  SeqsUpTo(RecipeQueryChars, MaxQueryLen) \cup {queryDessert, <<"U+015F">>}

InitRecipeSearch ==
  /\ books = INITIAL_BOOKS
  /\ recipes \in SeqsUpTo(SearchRecipes, MaxListLen)
  /\ tags = INITIAL_TAGS
  /\ collections = INITIAL_COLLECTIONS
  /\ renderedBooks = books
  /\ renderedRecipes = recipes
  /\ renderedTags = tags
  /\ renderedCollections = collections
  /\ now = Epoch0
  /\ steps = 0
  /\ last = NoCall
  /\ input \in [searchQuery : RecipeQueryInputs, showFavoritesOnly : BOOLEAN]
  /\ theme = ThemeLoaded

\* RecipesScreen renders the recipe list for the query and the favorites flag.
RecipesScreen_filteredRecipes ==
  /\ last = NoCall
  /\ last' = Call("filteredRecipes", input,
                  searchedRecipes(recipes, input.searchQuery, input.showFavoritesOnly), "")
  /\ UNCHANGED <<books, recipes, tags, collections, rendered, now, steps, input, theme>>

NextRecipeSearch == RecipesScreen_filteredRecipes

SpecRecipeSearch == InitRecipeSearch /\ [][NextRecipeSearch]_vars

(* ---------------------- claims on recipe search ----------------------- *)

\* C11: the filtered list is exactly the recipes, in order, for which the
\* query is a case-insensitive substring of the name or of at least one tag,
\* and which are favorites when showFavoritesOnly is set; with the empty query
\* and the flag off it is the whole list.
C11_RecipeSearchAndFavorites ==
  last.op = "filteredRecipes" =>
    LET q == last.arg.searchQuery
        fav == last.arg.showFavoritesOnly
    IN /\ last.ret = SelectSeq(recipes,
                               LAMBDA r :
                                 /\ \/ IsSubstringLowered(q, r.name)
                                    \/ \E t \in Range(r.tags) : IsSubstringLowered(q, t)
                                 /\ (~fav \/ r.isFavorite))
       /\ ((q = <<>> /\ ~fav) => last.ret = recipes)

\* C11 witness: with the flag on, the query dE keeps the favorite whose tag De
\* alone matches and drops the non-favorite that matches by its tag dessert.
C11_Witness ==
  /\ last.op = "filteredRecipes"
  /\ last.arg.searchQuery = <<"d", "E">>
  /\ last.arg.showFavoritesOnly
  /\ recipes = <<recipeTarte, recipeAb>>
  /\ last.ret = <<recipeAb>>

(* --------------------- source book of a recipe ------------------------ *)

txtRecettePersonnelle == <<"R", "e", "c", "e", "t", "t", "e", " ", "p", "e", "r", "s", "o", "n", "n", "e", "l", "l", "e">>

txtLivreInconnu == <<"L", "i", "v", "r", "e", " ", "i", "n", "c", "o", "n", "n", "u">>

\* RecipesScreen.getBookTitle
RecipesScreen_getBookTitle(bookList, bookId) ==
  IF ~Truthy(bookId) THEN txtRecettePersonnelle
  ELSE LET book == findById(bookList, bookId[1])
       IN IF book # None THEN book[1].title ELSE txtLivreInconnu

\* CollectionDetailScreen.getBookTitle
CollectionDetailScreen_getBookTitle(bookList, bookId) ==
  IF ~Truthy(bookId) THEN txtRecettePersonnelle
  ELSE LET book == findById(bookList, bookId[1])
       IN IF book # None THEN book[1].title ELSE txtLivreInconnu

\* RecipeDetailScreen: book = recipe?.bookId ? books.find(...) : null
RecipeDetailScreen_book(bookList, recipe) ==
  IF Truthy(recipe.bookId) THEN findById(bookList, recipe.bookId[1]) ELSE None

\* RecipeDetailScreen, Source section, {book ? ... : ...}: the title shown in the
\* link to the book (after its book pictogram), or the personal-recipe text.
RecipeDetailScreen_sourceText(bookList, recipe) ==
  LET book == RecipeDetailScreen_book(bookList, recipe)
  IN IF book # None THEN book[1].title ELSE txtRecettePersonnelle

\* The recipe's bookId is present and names no book of the list.
IsDangling(bookList, recipe) ==
  recipe.bookId # None /\ ~HasId(bookList, recipe.bookId[1])

\* C12 (as claimed): on every screen a recipe whose bookId names no existing
\* book gets the source text of a recipe without bookId.
C12_DanglingLikeAbsent ==
  \A i \in 1..Len(recipes) :
    IsDangling(books, recipes[i]) =>
      LET personal == [recipes[i] EXCEPT !.bookId = None]
      IN /\ RecipesScreen_getBookTitle(books, recipes[i].bookId)
              = RecipesScreen_getBookTitle(books, personal.bookId)
         /\ CollectionDetailScreen_getBookTitle(books, recipes[i].bookId)
              = CollectionDetailScreen_getBookTitle(books, personal.bookId)
         /\ RecipeDetailScreen_sourceText(books, recipes[i])
              = RecipeDetailScreen_sourceText(books, personal)

(* -------------------- claims on the tag registry ---------------------- *)

Count(seq, x) == Cardinality({i \in 1..Len(seq) : seq[i] = x})

\* C13 (as claimed): addTag(t) leaves a registry that already holds t
\* unchanged, and after addTag(t) the registry holds t exactly once, however
\* many times it was issued and from whichever rendered snapshot.
C13_AddTagIdempotent ==
  [][Called("addTag") =>
       /\ (last'.arg \in Range(tags) => tags' = tags)
       /\ Count(tags', last'.arg) = 1]_vars

\* C14 (as claimed): no tag occurs more than once in the registry.
C14_RegistryIsSet ==
  \A i, j \in 1..Len(tags) : i # j => tags[i] # tags[j]

\* C15: every tag of the registry is still in the registry after any store
\* operation, deletions and tag-removing updates included.
C15_RegistryAppendOnly ==
  [][Range(tags) \subseteq Range(tags')]_vars

\* C15 witness: updateRecipe replaced the tags of seeded recipe 3 by the single
\* tag y; the tags it lost are still registered, and a recipe has been deleted.
C15_Witness ==
  /\ last.op = "updateRecipe"
  /\ last.arg.id = <<"3">>
  /\ \E i \in 1..Len(recipes) : recipes[i].id = <<"3">> /\ recipes[i].tags = <<tagY>>
  /\ Len(recipes) < Len(INITIAL_RECIPES)
  /\ Range(INITIAL_TAGS) \subseteq Range(tags)
  /\ tagY \in Range(tags)

\* C16 (as claimed): the registry after addRecipe, updateRecipe or addTag is
\* the one the operation computes from the registry as it is when the
\* operation is applied.
C16_NoReadModifyWriteRace ==
  [][/\ (Called("addRecipe") \/ Called("updateRecipe")) =>
          tags' = registerTagsUpdater(tags, newTags(last'.arg.tags, tags))
     /\ Called("addTag") => tags' = addTagUpdater(tags, tags, last'.arg)]_vars

(* ------------------- claims on the record identity -------------------- *)

\* The records of the list are, position by position, the records of the
\* list before with the same id and the same createdAt.
SameIdentity(before, after) ==
  /\ Len(after) = Len(before)
  /\ \A i \in 1..Len(before) :
       /\ after[i].id = before[i].id
       /\ after[i].createdAt = before[i].createdAt

\* C19 (as claimed): an update operation (updateBook, updateRecipe,
\* updateCollection, toggleFavorite, the cascade of deleteBook) leaves every
\* record with the id and the createdAt it had.
C19_IdAndCreatedAtImmutable ==
  [][/\ Called("updateBook") => SameIdentity(books, books')
     /\ (Called("updateRecipe") \/ Called("toggleFavorite") \/ Called("deleteBook"))
          => SameIdentity(recipes, recipes')
     /\ Called("updateCollection") => SameIdentity(collections, collections')]_vars

(* --------------- save flows of the screens, process start ------------- *)

\* RecipeDetailScreen.saveEditing.  `recipe` is the recipe found at the last
\* render (the screen offers the handler only when it found one); the four
\* edited fields are the form's.
RecipeDetailScreen_saveEditing(recipeId, editedName, editedNotes, editedTags, editedRecipeImage) ==
  /\ Step
  /\ HasId(renderedRecipes, recipeId)
  /\ IF trim(editedName) = <<>>
     THEN /\ UNCHANGED store
          /\ last' = Call("RecipeDetailScreen.saveEditing",
                          <<recipeId, editedName, editedTags>>, None,
                          "Le nom de la recette est obligatoire")
     ELSE LET recipe == findById(renderedRecipes, recipeId)[1]
              updatedRecipe == [recipe EXCEPT !.name = trim(editedName),
                                              !.notes = trim(editedNotes),
                                              !.tags = editedTags,
                                              !.recipeImage = editedRecipeImage]
          IN /\ updateRecipe(updatedRecipe)
             /\ last' = Call("updateRecipe", updatedRecipe, None, "")
  /\ UNCHANGED <<rendered, now, input, theme>>

\* The body of RecipeDetailScreen.quickAddTag, `recipe` being the recipe
\* found at the last render.
quickAddTag(recipe, tag) ==
  IF ~arrayIncludes(recipe.tags, tag)
  THEN LET updatedRecipe == [recipe EXCEPT !.tags = Append(recipe.tags, tag)]
       IN /\ updateRecipe(updatedRecipe)
          /\ last' = Call("updateRecipe", updatedRecipe, None, "")
  ELSE /\ UNCHANGED store
       /\ last' = Call("RecipeDetailScreen.quickAddTag", <<recipe.id, tag>>, None, "")

\* RecipeDetailScreen.quickAddTag is called.
RecipeDetailScreen_quickAddTag(recipeId, tag) ==
  /\ Step
  /\ HasId(renderedRecipes, recipeId)
  /\ quickAddTag(findById(renderedRecipes, recipeId)[1], tag)
  /\ UNCHANGED <<rendered, now, input, theme>>

\* The tags that the dialog "Ajouter un tag" of RecipeDetailScreen offers: the
\* first twelve tags of the registry that the recipe does not have, both as
\* of the last render.
quickTags(recipeId) ==
  IF HasId(renderedRecipes, recipeId)
  THEN LET recipe == findById(renderedRecipes, recipeId)[1]
           offered == filterIdx(renderedTags,
                                {i \in 1..Len(renderedTags) :
                                   ~arrayIncludes(recipe.tags, renderedTags[i])}, 1)
       IN SubSeq(offered, 1, IF Len(offered) < 12 THEN Len(offered) ELSE 12)
  ELSE <<>>

\* One of the offered tags is pressed: onPress calls quickAddTag(tag).
RecipeDetailScreen_quickTag_onPress(recipeId, tag) ==
  /\ arrayIncludes(quickTags(recipeId), tag)
  /\ RecipeDetailScreen_quickAddTag(recipeId, tag)

\* RecipeDetailScreen.handleAddCustomTag, customTagInput being the text typed
\* in the dialog.
RecipeDetailScreen_handleAddCustomTag(recipeId, customTagInput) ==
  /\ Step
  /\ HasId(renderedRecipes, recipeId)
  /\ LET recipe == findById(renderedRecipes, recipeId)[1]
         trimmedTag == trim(customTagInput)
     IN IF trimmedTag = <<>>
        THEN /\ UNCHANGED store
             /\ last' = Call("RecipeDetailScreen.handleAddCustomTag",
                             <<recipeId, customTagInput>>, None,
                             "Le nom du tag ne peut pas être vide")
        ELSE IF arrayIncludes(recipe.tags, trimmedTag)
        THEN /\ UNCHANGED store
             /\ last' = Call("RecipeDetailScreen.handleAddCustomTag",
                             <<recipeId, customTagInput>>, None,
                             "Ce tag est déjà ajouté à la recette")
        ELSE quickAddTag(recipe, trimmedTag)
  /\ UNCHANGED <<rendered, now, input, theme>>

\* The star of RecipeDetailScreen, shown when the screen found its recipe at
\* the last render: onPress calls toggleFavorite(recipeId).
RecipeDetailScreen_toggleFavorite(recipeId) ==
  /\ Step
  /\ HasId(renderedRecipes, recipeId)
  /\ toggleFavorite(recipeId)
  /\ last' = Call("toggleFavorite", recipeId, None, "")
  /\ UNCHANGED <<rendered, now, input, theme>>

\* The star of a card of RecipesScreen; the cards are recipes of the last
\* render (all of them with no query typed): onPress calls
\* toggleFavorite(item.id).
RecipesScreen_toggleFavorite(recipeId) ==
  /\ Step
  /\ HasId(renderedRecipes, recipeId)
  /\ toggleFavorite(recipeId)
  /\ last' = Call("toggleFavorite", recipeId, None, "")
  /\ UNCHANGED <<rendered, now, input, theme>>

\* The star of a card of CollectionDetailScreen; the cards are the recipes of
\* the collection, both as of the last render.
CollectionDetailScreen_toggleFavorite(collectionId, recipeId) ==
  /\ Step
  /\ HasId(renderedCollections, collectionId)
  /\ HasId(filteredRecipes(renderedRecipes,
                           findById(renderedCollections, collectionId)[1]), recipeId)
  /\ toggleFavorite(recipeId)
  /\ last' = Call("toggleFavorite", recipeId, None, "")
  /\ UNCHANGED <<rendered, now, input, theme>>

\* RecipeDetailScreen.handleDelete opens its confirmation dialog.
RecipeDetailScreen_handleDelete(recipeId) ==
  /\ Step
  /\ HasId(renderedRecipes, recipeId)
  /\ last' = CallDialog("RecipeDetailScreen.handleDelete", recipeId, "Supprimer la recette")
  /\ UNCHANGED <<store, rendered, now, input, theme>>

\* Supprimer is pressed in that dialog: `await deleteRecipe(recipeId)`.
RecipeDetailScreen_handleDelete_onPress ==
  /\ last.dialog = "RecipeDetailScreen.handleDelete"
  /\ deleteRecipe(last.arg)
  /\ last' = Call("deleteRecipe", last.arg, None, "")
  /\ UNCHANGED <<rendered, now, steps, input, theme>>

\* CollectionDetailScreen.handleDelete opens its confirmation dialog.
CollectionDetailScreen_handleDelete(collectionId) ==
  /\ Step
  /\ HasId(renderedCollections, collectionId)
  /\ last' = CallDialog("CollectionDetailScreen.handleDelete", collectionId,
                        "Supprimer la collection")
  /\ UNCHANGED <<store, rendered, now, input, theme>>

\* Supprimer is pressed in that dialog: `await deleteCollection(collectionId)`.
CollectionDetailScreen_handleDelete_onPress ==
  /\ last.dialog = "CollectionDetailScreen.handleDelete"
  /\ deleteCollection(last.arg)
  /\ last' = Call("deleteCollection", last.arg, None, "")
  /\ UNCHANGED <<rendered, now, steps, input, theme>>

\* Annuler is pressed in a confirmation dialog: the dialog closes.
Alert_onPressAnnuler ==
  /\ last.dialog # ""
  /\ last' = [last EXCEPT !.alert = "", !.dialog = ""]
  /\ UNCHANGED <<store, rendered, now, steps, input, theme>>

\* Faulty variant of CollectionDetailScreen_saveEditing: the check on the
\* number of selected tags is missing.
CollectionDetailScreen_saveEditingUnchecked(collectionId, editedName, editedTags) ==
  /\ Step
  /\ HasId(renderedCollections, collectionId)
  /\ IF trim(editedName) = <<>>
     THEN /\ UNCHANGED store
          /\ last' = Call("CollectionDetailScreen.saveEditing",
                          <<collectionId, editedName, editedTags>>, None,
                          "Le nom de la collection est obligatoire")
     ELSE LET collection == findById(renderedCollections, collectionId)[1]
              updatedCollection == [collection EXCEPT !.name = trim(editedName),
                                                      !.tags = editedTags]
          IN /\ updateCollection(updatedCollection)
             /\ last' = Call("updateCollection", updatedCollection, None, "")
  /\ UNCHANGED <<rendered, now, input, theme>>

\* CollectionDetailScreen.saveEditing: `collection` is the collection found at
\* the last render.
CollectionDetailScreen_saveEditing(collectionId, editedName, editedTags) ==
  /\ Step
  /\ HasId(renderedCollections, collectionId)
  /\ IF trim(editedName) = <<>>
     THEN /\ UNCHANGED store
          /\ last' = Call("CollectionDetailScreen.saveEditing",
                          <<collectionId, editedName, editedTags>>, None,
                          "Le nom de la collection est obligatoire")
     ELSE IF Len(editedTags) = 0
     THEN /\ UNCHANGED store
          /\ last' = Call("CollectionDetailScreen.saveEditing",
                          <<collectionId, editedName, editedTags>>, None,
                          "Veuillez sélectionner au moins un tag")
     ELSE LET collection == findById(renderedCollections, collectionId)[1]
              updatedCollection == [collection EXCEPT !.name = trim(editedName),
                                                      !.tags = editedTags]
          IN /\ updateCollection(updatedCollection)
             /\ last' = Call("updateCollection", updatedCollection, None, "")
  /\ UNCHANGED <<rendered, now, input, theme>>

\* BookDetailScreen.handleDelete, which the screen offers when it found the
\* book at the last render, opens its confirmation dialog.
BookDetailScreen_handleDelete(bookId) ==
  /\ Step
  /\ HasId(renderedBooks, bookId)
  /\ last' = CallDialog("BookDetailScreen.handleDelete", bookId, "Supprimer le livre")
  /\ UNCHANGED <<store, rendered, now, input, theme>>

\* Supprimer is pressed in that dialog: `await deleteBook(bookId)`, then the
\* alert on the detached recipes when the returned count is positive.
BookDetailScreen_handleDelete_onPress ==
  /\ last.dialog = "BookDetailScreen.handleDelete"
  /\ AwaitDeleteBook(last.arg)
  /\ UNCHANGED steps

\* Faulty variant of the mount: the new process finds the store of the
\* previous one.
AppProvider_mountRestoring ==
  /\ Step
  /\ UNCHANGED store
  /\ renderedBooks' = books
  /\ renderedRecipes' = recipes
  /\ renderedTags' = tags
  /\ renderedCollections' = collections
  /\ last' = Call("AppProvider", store, None, "")
  /\ UNCHANGED <<now, input, theme>>

\* The process is started again: AppProvider is mounted and its four useState
\* hooks take their initial values; the mount effect does nothing.  The call
\* record keeps the store that the previous process held.
AppProvider_mount ==
  /\ Step
  /\ books' = INITIAL_BOOKS
  /\ recipes' = INITIAL_RECIPES
  /\ tags' = INITIAL_TAGS
  /\ collections' = INITIAL_COLLECTIONS
  /\ renderedBooks' = INITIAL_BOOKS
  /\ renderedRecipes' = INITIAL_RECIPES
  /\ renderedTags' = INITIAL_TAGS
  /\ renderedCollections' = INITIAL_COLLECTIONS
  /\ last' = Call("AppProvider", store, None, "")
  /\ UNCHANGED <<now, input, theme>>

\* storage.ts: what each function of the facade returns; none has a body that
\* reads or writes anything.
storageResult(fn) ==
  IF fn \in {"getBooks", "getRecipes", "getTags", "getCollections"} THEN Some(<<>>)
  ELSE IF fn = "deleteBook" THEN Some(0)
  ELSE None

StorageFunctions ==
  {"getBooks", "saveBook", "updateBook", "deleteBook",
   "getRecipes", "saveRecipe", "updateRecipe", "deleteRecipe", "toggleFavorite",
   "getTags", "addTag",
   "getCollections", "saveCollection", "updateCollection", "deleteCollection"}

\* loadData: the store <<books, recipes, tags, collections>> after the call
loadData(s) == s

\* A component calls loadData().
LoadData ==
  /\ Step
  /\ LET s == loadData(store)
     IN /\ books' = s[1]
        /\ recipes' = s[2]
        /\ tags' = s[3]
        /\ collections' = s[4]
  /\ last' = Call("loadData", None, None, "")
  /\ UNCHANGED <<rendered, now, input, theme>>

\* A function of the storage facade is called.
Storage(fn) ==
  /\ Step
  /\ UNCHANGED store
  /\ last' = Call("storage", fn, storageResult(fn), "")
  /\ UNCHANGED <<rendered, now, input, theme>>

\* the edit form of seeded recipe 3 after startEditing, with a name and tags
\* chosen, and with notes typed and an image picked as well
RecipeEditForms ==
  { [recipeId |-> <<"3">>, editedName |-> <<" ">>, editedNotes |-> INITIAL_RECIPES[3].notes,
     editedTags |-> <<tagX>>, editedRecipeImage |-> None],
    [recipeId |-> <<"3">>, editedName |-> <<" ", "B">>, editedNotes |-> INITIAL_RECIPES[3].notes,
     editedTags |-> <<tagY>>, editedRecipeImage |-> None],
    [recipeId |-> <<"3">>, editedName |-> <<"B">>, editedNotes |-> <<"m", " ">>,
     editedTags |-> <<tagY>>, editedRecipeImage |-> Some(<<"f">>)] }

CollectionEditForms ==
  { [collectionId |-> <<"1">>, editedName |-> <<" ">>, editedTags |-> <<tagX>>],
    [collectionId |-> <<"1">>, editedName |-> <<"C", " ">>, editedTags |-> <<>>],
    [collectionId |-> <<"1">>, editedName |-> <<" ", "D">>, editedTags |-> <<tagX>>] }

\* the tags pressed among those offered, and the texts typed as a new tag
QuickTagInputs == {tagDessert, tagX}

CustomTagInputs == {<<" ">>, <<" ", "x">>, tagPlat}

\* The handlers of the screens that a press calls, and what follows a press
\* without being one: the clock, a render, the handler resuming after its
\* await, the button pressed in an open dialog.
NextScreens ==
  \/ Tick
  \/ Render
  \/ HandlerResumes
  \/ BookDetailScreen_handleDelete_onPress
  \/ RecipeDetailScreen_handleDelete_onPress
  \/ CollectionDetailScreen_handleDelete_onPress
  \/ Alert_onPressAnnuler
  \/ steps < MaxSteps /\ \E form \in BookForms : AddBookScreen_handleSave(None, form)
  \/ steps < MaxSteps /\ \E editBookId \in BookRoutes, form \in BookEditForms :
       AddBookScreen_handleSave(editBookId, form)
  \/ steps < MaxSteps /\ BookDetailScreen_handleDelete(<<"1">>)
  \/ steps < MaxSteps /\ \E form \in RecipeForms :
       AddRecipeScreen_handleSave(form.name, form.selectedBookId, form.selectedTags,
                                  form.notes)
  \/ steps < MaxSteps /\ \E form \in RecipeEditForms :
       RecipeDetailScreen_saveEditing(form.recipeId, form.editedName, form.editedNotes,
                                      form.editedTags, form.editedRecipeImage)
  \/ steps < MaxSteps /\ \E tag \in QuickTagInputs :
       RecipeDetailScreen_quickTag_onPress(<<"1">>, tag)
  \/ steps < MaxSteps /\ \E customTagInput \in CustomTagInputs :
       RecipeDetailScreen_handleAddCustomTag(<<"1">>, customTagInput)
  \/ steps < MaxSteps /\ RecipeDetailScreen_toggleFavorite(<<"1">>)
  \/ steps < MaxSteps /\ RecipeDetailScreen_handleDelete(<<"3">>)
  \/ steps < MaxSteps /\ \E recipeId \in {<<"1">>, <<"3">>} :
       RecipesScreen_toggleFavorite(recipeId)
  \/ steps < MaxSteps /\ \E form \in CollectionForms :
       CollectionsScreen_handleCreateCollection(form.newCollectionName, form.selectedTags)
  \/ steps < MaxSteps /\ \E form \in CollectionEditForms :
       CollectionDetailScreen_saveEditing(form.collectionId, form.editedName, form.editedTags)
  \/ steps < MaxSteps /\ \E recipeId \in {<<"1">>, <<"5">>} :
       CollectionDetailScreen_toggleFavorite(<<"2">>, recipeId)
  \/ steps < MaxSteps /\ CollectionDetailScreen_handleDelete(<<"1">>)

SpecScreens == Init /\ [][NextScreens]_vars

\* The store operations, the start of a new process, loadData and the storage
\* facade.
NextProcess ==
  \/ Next
  \/ steps < MaxSteps /\ AppProvider_mount
  \/ steps < MaxSteps /\ LoadData
  \/ steps < MaxSteps /\ \E fn \in StorageFunctions : Storage(fn)

SpecProcess == Init /\ [][NextProcess]_vars

\* The book form, one press deeper: AddBookScreen mounted without a route
\* parameter, and mounted with the id of a seeded book, of no book, of a book
\* added at the first instant.
EditRoutes == BookRoutes \cup {Some(numToString(Number(Epoch0)))}

\* The form that AddBookScreen opens for the route, with a title typed over
\* the one it shows.
EditedForms(editBookId) ==
  LET opened == AddBookScreen_form(findById(renderedBooks, editBookId[1]))
  IN {[opened EXCEPT !.title = <<" ">>], [opened EXCEPT !.title = <<"M">>]}

NextBookForm ==
  \/ Tick
  \/ Render
  \/ HandlerResumes
  \/ steps < MaxSteps + 1 /\ \E form \in BookForms : AddBookScreen_handleSave(None, form)
  \/ steps < MaxSteps + 1 /\ \E editBookId \in EditRoutes :
                               \E form \in EditedForms(editBookId) :
                                 AddBookScreen_handleSave(editBookId, form)

SpecBookForm == Init /\ [][NextBookForm]_vars

(* ------------------- claims on the screens' flows --------------------- *)

\* Every character of s is white space (s is empty after trimming).
IsBlank(s) == \A i \in 1..Len(s) : s[i] \in WhiteSpace

\* The step just taken is a handler call that ended at the handler's
\* validation, without reaching the store.
Rejected(handler) == steps' = steps + 1 /\ last'.op = handler

\* C17: a save flow reaches addBook or updateBook only with a title and an
\* author that are not blank, and addRecipe or updateRecipe only with a name
\* that is not blank; a save that stops at validation had a blank required
\* field, reports an error and leaves the store unchanged.
C17_CallerSideValidation ==
  [][/\ (Called("addBook") \/ Called("updateBook")) =>
          (~IsBlank(last'.arg.title) /\ ~IsBlank(last'.arg.author))
     /\ (Called("addRecipe") \/ Called("updateRecipe")) => ~IsBlank(last'.arg.name)
     /\ Rejected("AddBookScreen.handleSave") =>
          /\ IsBlank(last'.arg[1]) \/ IsBlank(last'.arg[2])
          /\ last'.alert # ""
          /\ UNCHANGED store
     /\ Rejected("AddRecipeScreen.handleSave") =>
          /\ IsBlank(last'.arg[1])
          /\ last'.alert # ""
          /\ UNCHANGED store
     /\ Rejected("RecipeDetailScreen.saveEditing") =>
          /\ IsBlank(last'.arg[2])
          /\ last'.alert # ""
          /\ UNCHANGED store]_vars

\* C17 witness: the edit of seeded recipe 3, typed " B", reached the store as
\* "B", and the book save that followed was refused for its blank author
\* with the store as it was.
C17_Witness ==
  /\ last.op = "AddBookScreen.handleSave"
  /\ last.alert = "L'auteur est obligatoire"
  /\ IsBlank(last.arg[2])
  /\ books = INITIAL_BOOKS
  /\ \E i \in 1..Len(recipes) : recipes[i].id = <<"3">> /\ recipes[i].name = <<"B">>

WellFormedCollection(c) == Len(c.tags) >= 1 /\ ~IsBlank(c.name)

\* C18: every collection of the store has at least one tag and a name that is
\* not blank, initially and after every step of the create and edit flows; a
\* create or a save refused for a blank name or for zero tags leaves the
\* store unchanged.
C18_CollectionsWellFormed ==
  /\ \A k \in 1..Len(collections) : WellFormedCollection(collections[k])
  /\ [][/\ \A k \in 1..Len(collections') : WellFormedCollection(collections'[k])
        /\ (Rejected("CollectionsScreen.handleCreateCollection")
              \/ Rejected("CollectionDetailScreen.saveEditing")) =>
             /\ IsBlank(last'.arg[Len(last'.arg) - 1]) \/ Len(last'.arg[Len(last'.arg)]) = 0
             /\ UNCHANGED store]_vars

\* C18 witness: the create form stored a collection, and the edit form's save
\* with zero tags was refused last.
C18_Witness ==
  /\ last.op = "CollectionDetailScreen.saveEditing"
  /\ last.arg[3] = <<>>
  /\ Len(collections) = Len(INITIAL_COLLECTIONS) + 1

\* C20: when the process starts again the store is the seeded data whatever
\* it held before, and loadData and the functions of the storage facade leave
\* the store unchanged.
C20_NothingPersisted ==
  [][/\ Called("AppProvider") =>
          store' = <<INITIAL_BOOKS, INITIAL_RECIPES, INITIAL_TAGS, INITIAL_COLLECTIONS>>
     /\ (Called("loadData") \/ Called("storage")) => UNCHANGED store]_vars

\* C20 witness: the process restarted on a store in which the books and the
\* recipes differed from the seed; the store is the seed again.
C20_Witness ==
  /\ last.op = "AppProvider"
  /\ last.arg[1] # INITIAL_BOOKS
  /\ last.arg[2] # INITIAL_RECIPES
  /\ store = <<INITIAL_BOOKS, INITIAL_RECIPES, INITIAL_TAGS, INITIAL_COLLECTIONS>>

(* --------------------- frames of the store operations ----------------- *)

\* The two recipes agree on every field but isFavorite.
SameButFavorite(r1, r2) ==
  /\ r1.id = r2.id
  /\ r1.name = r2.name
  /\ r1.bookId = r2.bookId
  /\ r1.tags = r2.tags
  /\ r1.notes = r2.notes
  /\ r1.recipeImage = r2.recipeImage
  /\ r1.createdAt = r2.createdAt

\* C21: toggleFavorite(id) keeps the length and the order of the recipe list,
\* flips isFavorite on the recipes whose id is id and changes no other field
\* of them, leaves every other recipe as it was, and leaves books, tag
\* registry and collections unchanged.
C21_ToggleFavoriteFrame ==
  [][Called("toggleFavorite") =>
       /\ Len(recipes') = Len(recipes)
       /\ \A i \in 1..Len(recipes) :
            IF recipes[i].id = last'.arg
            THEN /\ SameButFavorite(recipes'[i], recipes[i])
                 /\ recipes'[i].isFavorite = ~recipes[i].isFavorite
            ELSE recipes'[i] = recipes[i]
       /\ UNCHANGED <<books, tags, collections>>]_vars

\* C21 witness: toggleFavorite('3') made the seeded recipe 3 a favorite; the
\* four other recipes are the seeded ones.
C21_Witness ==
  /\ last.op = "toggleFavorite"
  /\ last.arg = <<"3">>
  /\ Len(recipes) = 5
  /\ recipes[3].isFavorite
  /\ ~INITIAL_RECIPES[3].isFavorite
  /\ \A i \in {1, 2, 4, 5} : recipes[i] = INITIAL_RECIPES[i]

\* C22: deleteRecipe(id) leaves exactly the recipes whose id is not id, in
\* their order, and leaves books, collections and tag registry unchanged.
C22_DeleteRecipeNoCascade ==
  [][Called("deleteRecipe") =>
       /\ recipes' = SelectSeq(recipes, LAMBDA r : r.id # last'.arg)
       /\ UNCHANGED <<books, tags, collections>>]_vars

\* C22 witness: deleteRecipe('1') removed the first seeded recipe; the four
\* others follow in order and the tags only recipe 1 carried (viande) are
\* still registered.
C22_Witness ==
  /\ last.op = "deleteRecipe"
  /\ last.arg = <<"1">>
  /\ recipes = Tail(INITIAL_RECIPES)
  /\ tags = INITIAL_TAGS
  /\ <<"v", "i", "a", "n", "d", "e">> \in Range(tags)

\* The list after is the list before with the records of id rec.id replaced
\* by rec, at their place.
ReplacedInPlace(before, after, rec) ==
  /\ Len(after) = Len(before)
  /\ \A i \in 1..Len(before) :
       after[i] = IF before[i].id = rec.id THEN rec ELSE before[i]
  /\ {after[i].id : i \in 1..Len(after)} = {before[i].id : i \in 1..Len(before)}

\* C23: updateBook, updateRecipe and updateCollection put the supplied record
\* at the place of the record with its id and change no other record of the
\* kind; length, order and set of ids of the list are kept.
C23_UpdateReplacesInPlace ==
  [][/\ Called("updateBook") => ReplacedInPlace(books, books', last'.arg)
     /\ Called("updateRecipe") => ReplacedInPlace(recipes, recipes', last'.arg)
     /\ Called("updateCollection") =>
          ReplacedInPlace(collections, collections', last'.arg)]_vars

\* C23 witness: updateBook gave the seeded book 1 the title Z; it is still
\* the first of the four books and the three others are the seeded ones.
C23_Witness ==
  /\ last.op = "updateBook"
  /\ last.arg.id = <<"1">>
  /\ Len(books) = 4
  /\ books[1] = last.arg
  /\ books[1].title = <<"Z">>
  /\ books[1] # INITIAL_BOOKS[1]
  /\ \A i \in 2..4 : books[i] = INITIAL_BOOKS[i]

(* ------------- what the suggestion depends on ------------------------- *)

\* The title in upper case, letter by letter.
UpperCased(s) ==
  [i \in 1..Len(s) |->
     IF \E k \in 1..Len(LowerChars) : LowerChars[k] = s[i]
     THEN UpperChars[CHOOSE k \in 1..Len(LowerChars) : LowerChars[k] = s[i]]
     ELSE s[i]]

\* Titles that differ from the title by the case of their letters only.
CaseVariants(title) == {title, toLowerCase(title), UpperCased(title)}

\* C24: the suggestion is the same for every author and pseudonym and for
\* every title equal to the given one up to the case of its letters, whatever
\* the books of the store.
C24_SuggestionDependsOnTitleOnly ==
  last.op = "suggestBookCategory" =>
    \A t \in CaseVariants(last.arg.title) :
      \A a \in {<<>>, <<"X">>, <<"Y">>, <<"D", "e", "s", "s", "e", "r", "t">>} :
        \A p \in {<<>>, <<"p">>, <<"V", "e", "g", "a", "n">>} :
          suggestBookCategory(t, a, p) = last.ret

\* C24 witness: with no book in the store, author Y and a pseudonym, the
\* title VEGAN in upper case got the head (Végétarien, 0.9).
C24_Witness ==
  /\ last.op = "suggestBookCategory"
  /\ books = <<>>
  /\ last.arg.title = <<"V", "E", "G", "A", "N">>
  /\ last.arg.author = <<"Y">>
  /\ last.arg.pseudonym = <<"p">>
  /\ last.ret[1] = Suggestion(catVegetarien, 90)

(* ------------------- the store validates nothing ---------------------- *)

\* x is a list (an array): its indices are 1..Len(x).
IsList(x) == DOMAIN x = 1..Len(x)

\* In the current state every operation of the store, on every argument of
\* its type, yields lists again: no argument is refused.
EveryOperationTotal ==
  /\ \A book \in BookInputs \cup RawBookInputs :
       /\ IsList(addBookUpdater(books, book))
       /\ IsList(updateBookUpdater(books, book))
  /\ \A bookId \in BookIdInputs :
       /\ IsList(deleteBookUpdater(books, bookId))
       /\ IsList(detachUpdater(recipes, bookId))
       /\ detachedCountAtReturn(recipes, bookId) \in Nat
  /\ \A recipe \in RecipeInputs :
       /\ IsList(addRecipeUpdater(recipes, recipe))
       /\ IsList(updateRecipeUpdater(recipes, recipe))
       /\ IsList(registerTagsUpdater(tags, newTags(recipe.tags, renderedTags)))
  /\ \A recipeId \in RecipeIdInputs :
       /\ IsList(deleteRecipeUpdater(recipes, recipeId))
       /\ IsList(toggleFavoriteUpdater(recipes, recipeId))
  /\ \A tag \in TagInputs \cup {<<>>} : IsList(addTagUpdater(tags, renderedTags, tag))
  /\ \A collection \in CollectionInputs :
       /\ IsList(addCollectionUpdater(collections, collection))
       /\ IsList(updateCollectionUpdater(collections, collection))
  /\ \A collectionId \in CollectionIdInputs :
       IsList(deleteCollectionUpdater(collections, collectionId))

\* addBook(book) leaves the book list extended by book at its end; the book
\* passes the filter of the book list screen with an empty query, and a
\* recipe list resolves the id of the book, when no book had it before, to
\* its title.
AddBookStores(book) ==
  LET after == addBookUpdater(books, book)
  IN /\ after = Append(books, book)
     /\ bookMatches(after[Len(after)], <<>>)
     /\ (findById(books, book.id) = None =>
           RecipesScreen_getBookTitle(after, Some(book.id)) = book.title)

\* C25: in every state, every operation of the store succeeds on every
\* argument of its type, and addBook stores the book it is given, whatever
\* its title, where the queries see it; after a call of addBook the book
\* passed is the last of the list.
C25_StoreValidatesNothing ==
  /\ EveryOperationTotal
  /\ \A book \in BookInputs \cup RawBookInputs : AddBookStores(book)
  /\ last.op = "addBook" => books[Len(books)] = last.arg

\* C25 witness: addBook was called with a book whose title and author are
\* empty; the book is the last of the list and the book list screen shows it.
C25_Witness ==
  /\ last.op = "addBook"
  /\ last.arg.title = <<>>
  /\ last.arg.author = <<>>
  /\ books[Len(books)] = last.arg
  /\ last.arg \in Range(filteredBooks(books, <<>>))

(* ------------------ dangling references by stale reads ---------------- *)

\* C26: deleteBook(b) leaves no recipe that refers to b; updateRecipe stores
\* the bookId of the record it is given without looking at the books, so a
\* record whose bookId names no book makes the stored recipe refer to a book
\* that does not exist.
C26_StaleReadDangles ==
  [][/\ Called("deleteBook") =>
          \A i \in 1..Len(recipes') : recipes'[i].bookId # Some(last'.arg)
     /\ (/\ Called("updateRecipe")
         /\ HasId(recipes, last'.arg.id)
         /\ last'.arg.bookId # None) =>
          \A i \in 1..Len(recipes') :
            recipes'[i].id = last'.arg.id =>
              /\ recipes'[i].bookId = last'.arg.bookId
              /\ IsDangling(books', recipes'[i])
                   = ~HasId(books, last'.arg.bookId[1])]_vars

\* C26 witness: recipe 1 was read with bookId '1' (and got a tag in the
\* form), book 1 was deleted, then the record read was passed to
\* updateRecipe: recipe 1 refers to book 1 and the book list, the seeded one
\* without its first book, has no book 1.
C26_Witness ==
  /\ steps = 2
  /\ last.op = "updateRecipe"
  /\ last.arg = [INITIAL_RECIPES[1] EXCEPT !.tags = @ \o <<tagX>>]
  /\ INITIAL_RECIPES[1].bookId = Some(<<"1">>)
  /\ books = Tail(INITIAL_BOOKS)
  /\ ~HasId(books, <<"1">>)
  /\ recipes[1].bookId = Some(<<"1">>)
  /\ IsDangling(books, recipes[1])

(* ------------------------------- theme -------------------------------- *)

storeSeeded ==
  /\ books = INITIAL_BOOKS
  /\ recipes = INITIAL_RECIPES
  /\ tags = INITIAL_TAGS
  /\ collections = INITIAL_COLLECTIONS
  /\ renderedBooks = books
  /\ renderedRecipes = recipes
  /\ renderedTags = tags
  /\ renderedCollections = collections

\* The application starts on a light or a dark system, with no preference
\* stored or one stored by an earlier session.
InitTheme ==
  /\ storeSeeded
  /\ now = Epoch0
  /\ steps = 0
  /\ last = NoCall
  /\ input = None
  /\ theme \in {ThemeProvider(systemIsDark, stored) :
                  systemIsDark \in BOOLEAN,
                  stored \in {None, Some(txtDark), Some(txtLight)}}

\* The two ways a call of AsyncStorage ends: its promise resolves or rejects.
StorageOutcomes == {"resolves", "rejects"}

\* loadThemePreference after its await: getItem has resolved with savedTheme,
\* which replaces isDark unless it is null, or it has rejected and the catch
\* block logs the error and leaves isDark.
loadThemePreference(getItem) ==
  /\ theme.load = "pending"
  /\ theme' = IF getItem = "resolves"
              THEN [theme EXCEPT
                      !.load = "done",
                      !.isDark = IF theme.savedTheme # None
                                 THEN theme.savedTheme[1] = txtDark
                                 ELSE @]
              ELSE [theme EXCEPT
                      !.load = "done",
                      !.errors = Append(@, "Error loading theme:")]
  /\ UNCHANGED <<books, recipes, tags, collections, rendered, now, steps, last, input>>

\* toggleTheme up to its await: isDark is the one of the closure, the one of
\* the last render; setItem is handed to AsyncStorage.
toggleTheme ==
  /\ Step
  /\ LET newTheme == ~theme.rendered
     IN /\ theme' = [theme EXCEPT
                       !.isDark = newTheme,
                       !.writes = Append(@, IF newTheme THEN txtDark ELSE txtLight)]
        /\ last' = Call("toggleTheme", theme.isDark, newTheme, "")
  /\ UNCHANGED <<books, recipes, tags, collections, rendered, now, input>>

\* The oldest setItem that waits ends and its toggleTheme resumes: the entry
\* is written, or the promise rejects, nothing is written and the catch
\* block of toggleTheme logs the error.
AsyncStorage_setItem(setItem) ==
  /\ theme.writes # <<>>
  /\ theme' = IF setItem = "resolves"
              THEN [theme EXCEPT !.stored = Some(Head(theme.writes)),
                                 !.writes = Tail(@)]
              ELSE [theme EXCEPT !.writes = Tail(@),
                                 !.errors = Append(@, "Error saving theme:")]
  /\ UNCHANGED <<books, recipes, tags, collections, rendered, now, steps, last, input>>

\* React re-renders ThemeProvider: toggleTheme is re-created over the new isDark.
ThemeRender ==
  /\ theme.rendered # theme.isDark
  /\ theme' = [theme EXCEPT !.rendered = theme.isDark]
  /\ UNCHANGED <<books, recipes, tags, collections, rendered, now, steps, last, input>>

\* The application is started again once nothing is pending: ThemeProvider is
\* mounted over the entry the last session left.
ThemeProvider_mount ==
  /\ Step
  /\ theme.load = "done"
  /\ theme.writes = <<>>
  /\ theme' = ThemeProvider(theme.system, theme.stored)
  /\ last' = Call("ThemeProvider", theme.stored, None, "")
  /\ UNCHANGED <<books, recipes, tags, collections, rendered, now, input>>

NextTheme ==
  \/ \E getItem \in StorageOutcomes : loadThemePreference(getItem)
  \/ steps < MaxSteps /\ toggleTheme
  \/ \E setItem \in StorageOutcomes : AsyncStorage_setItem(setItem)
  \/ ThemeRender
  \/ steps < MaxSteps /\ ThemeProvider_mount

SpecTheme == InitTheme /\ [][NextTheme]_vars

(* ------------------------- claims on the theme ------------------------ *)

\* No storage read or write is pending.
ThemeQuiescent == theme.load = "done" /\ theme.writes = <<>>

\* No call of AsyncStorage has been rejected since the mount.
ThemeStorageAnswered == theme.errors = <<>>

\* C27 (as claimed): once all pending storage reads and writes have
\* completed (none of them rejected), the stored '@theme_preference', if
\* there is one, is 'dark' exactly when isDark is true (and without one
\* isDark is the system's).
C27_PersistedAgreesWithDisplayed ==
  ThemeQuiescent /\ ThemeStorageAnswered =>
    IF theme.stored = None THEN theme.isDark = theme.system
    ELSE theme.isDark = (theme.stored[1] = txtDark)

(* ----------------- recipes' tags and the registry --------------------- *)

\* C28: every tag of every recipe of the store is in the tag registry.
C28_RecipeTagsRegistered ==
  \A i \in 1..Len(recipes) : Range(recipes[i].tags) \subseteq Range(tags)

\* C28 witness: updateRecipe gave the seeded recipe 3 the single tag y, which
\* the seeded registry does not have; y is registered.
C28_Witness ==
  /\ last.op = "updateRecipe"
  /\ last.arg.id = <<"3">>
  /\ recipes[3].tags = <<tagY>>
  /\ tagY \notin Range(INITIAL_TAGS)
  /\ tagY \in Range(tags)

(* --------------------------- frame of deleteBook ---------------------- *)

\* C29: deleteBook(b) leaves the books whose id is not b, in their order;
\* the recipes that referred to b keep their place and every field but
\* bookId; every other recipe, the tag registry and the collections are
\* unchanged.
C29_DeleteBookFrame ==
  [][Called("deleteBook") =>
       LET b == last'.arg
       IN /\ books' = SelectSeq(books, LAMBDA book : book.id # b)
          /\ Len(recipes') = Len(recipes)
          /\ \A i \in 1..Len(recipes) :
               IF recipes[i].bookId = Some(b)
               THEN recipes'[i] = [recipes[i] EXCEPT !.bookId = recipes'[i].bookId]
               ELSE recipes'[i] = recipes[i]
          /\ UNCHANGED <<tags, collections>>]_vars

\* C29 witness: deleteBook('1') ran on the seeded store: the three other
\* books follow in order, recipes 1 and 5, which referred to book 1, differ
\* from the seeded ones by bookId only (recipe 1 is still a favorite), and
\* recipes 2 to 4 are the seeded ones.
C29_Witness ==
  /\ last.op = "deleteBook"
  /\ last.arg = <<"1">>
  /\ books = Tail(INITIAL_BOOKS)
  /\ \A i \in {1, 5} :
       /\ INITIAL_RECIPES[i].bookId = Some(<<"1">>)
       /\ recipes[i] = [INITIAL_RECIPES[i] EXCEPT !.bookId = None]
  /\ recipes[1].isFavorite
  /\ \A i \in 2..4 : recipes[i] = INITIAL_RECIPES[i]
  /\ tags = INITIAL_TAGS
  /\ collections = INITIAL_COLLECTIONS

(* -------------------- membership of a collection ---------------------- *)

\* The ids of the recipes the collection's screen lists, in order.
MemberIds(recipeList, collection) ==
  LET members == filteredRecipes(recipeList, collection)
  IN [i \in 1..Len(members) |-> members[i].id]

\* The step is a call of an operation that changes neither the tags of a
\* recipe nor a collection that remains.
MembershipPreservingCall ==
  \/ Called("toggleFavorite")
  \/ Called("addBook")
  \/ Called("updateBook")
  \/ Called("deleteBook")
  \/ Called("addTag")
  \/ Called("addCollection")
  \/ Called("deleteCollection")

\* C30: the seeded collection Mes Favoris lists no seeded recipe although
\* three are favorites; toggleFavorite, addBook, updateBook, deleteBook, addTag
\* and adding or deleting another collection leave the recipes listed by every
\* collection that remains the same.
C30_MembershipDependsOnTagsOnly ==
  /\ MemberIds(INITIAL_RECIPES, INITIAL_COLLECTIONS[1]) = <<>>
  /\ [][MembershipPreservingCall =>
          \A c \in Range(collections) \cap Range(collections') :
            MemberIds(recipes', c) = MemberIds(recipes, c)]_vars

\* C30 witness: toggleFavorite('3') made a fourth recipe a favorite; Mes
\* Favoris, whose only tag is favoris, still lists no recipe, and Repas
\* Rapides lists the seeded recipes 1 and 5, tagged facile.
C30_Witness ==
  /\ last.op = "toggleFavorite"
  /\ last.arg = <<"3">>
  /\ Cardinality({i \in 1..Len(recipes) : recipes[i].isFavorite}) = 4
  /\ collections = INITIAL_COLLECTIONS
  /\ collections[1].tags = << <<"f", "a", "v", "o", "r", "i", "s">> >>
  /\ MemberIds(recipes, collections[1]) = <<>>
  /\ MemberIds(recipes, collections[2]) = << <<"1">>, <<"5">> >>
====
